---- MODULE Spec2Model ----
(***************************************************************************)
(* A model of the chart computation kernel of lodviz (crate lodviz_core):  *)
(* the downsampling, nearest-point, statistics, stacking and arc           *)
(* algorithms, and the data table, the scales and the selections of core.  *)
(*                                                                         *)
(* The kernel holds no state of its own: every function is pure given its  *)
(* inputs.  Each function is an operator that computes what the Rust code  *)
(* computes, and each has a specification whose initial states are the     *)
(* bounded inputs (pc = "call") and whose action applies the function and  *)
(* stores what it returns (pc = "done").  A table, a scale and a selection *)
(* are objects: their specifications start from the empty table, or before *)
(* construction, and the constructors and the methods are the actions.     *)
(*                                                                         *)
(* Numbers.  The code computes in f64.  The model computes in exact        *)
(* arithmetic over small integer inputs; where the code divides, the       *)
(* model keeps the value scaled by the (stated) denominator, compares by   *)
(* cross-multiplication or holds a rational, so that no rounding is        *)
(* introduced.  Floating-point rounding and NaN inputs are outside the     *)
(* model.                                                                  *)
(***************************************************************************)
EXTENDS Integers, Sequences, FiniteSets

VARIABLES
    op,     \* the kernel function this behaviour calls
    pc,     \* "call": the arguments are set up; "done": the function returned
    args,   \* the arguments (a record); a &mut argument holds its value after the call
    ret,    \* the returned value (NoRet before the call)
    sel     \* ghost: for a function that returns points copied from its input,
            \* the 0-based input index each returned point was copied from

vars == <<op, pc, args, ret, sel>>

NoRet == [none |-> TRUE]

(***************************************************************************)
(* Helpers shared by the operators below.                                  *)
(***************************************************************************)
Abs(v) == IF v < 0 THEN 0 - v ELSE v

Min2(a, b) == IF a <= b THEN a ELSE b

Max2(a, b) == IF a >= b THEN a ELSE b

\* DataPoint { x, y } (core/data.rs)
DataPoint(px, py) == [x |-> px, y |-> py]

\* Whether a sequence of points is sorted by non-decreasing x.
SortedByX(data) == \A i \in 1..(Len(data) - 1) : data[i].x <= data[i + 1].x

(***************************************************************************)
(* LTTB downsampling (algorithms/lttb.rs).  Sequences are 1-based here:    *)
(* the code's data[i] is data[i + 1] in the model; all the index           *)
(* computations below are the code's 0-based ones.                         *)
(***************************************************************************)
LttbMaxLen == 5

LttbPoints == {DataPoint(px, py) : px \in 0..2, py \in 0..1}

\* data[i] with the code's 0-based index
At(data, i) == data[i + 1]

\* floor(k * bucket_size + 1.0) with bucket_size = (n - 2) / (threshold - 2),
\* in exact arithmetic: floor(k * (n - 2) / (threshold - 2)) + 1.  For the
\* lengths of SpecLttb this is the value f64 gives (LttbRangesExactWhenShort);
\* lttb_range_floor is the f64 computation.
lttb_bucket_floor(k, n, threshold) == ((k * (n - 2)) \div (threshold - 2)) + 1

\* sum of f over data[lo..hi) (0-based, hi exclusive), f = "x" or "y"
RECURSIVE lttb_range_sum(_, _, _, _)
lttb_range_sum(data, lo, hi, f) ==
    IF lo >= hi THEN 0
    ELSE (IF f = "x" THEN At(data, lo).x ELSE At(data, lo).y)
         + lttb_range_sum(data, lo + 1, hi, f)

\* The triangle area of lines 105-107, times cnt (the number of points the
\* averages avg_x = sum_x / cnt and avg_y = sum_y / cnt are taken over).
\* cnt > 0 is the same for every candidate of one bucket, so comparing the
\* scaled areas is comparing the areas.
lttb_area(point_a, point_b, sum_x, sum_y, cnt) ==
    Abs((point_a.x * cnt - sum_x) * (point_b.y - point_a.y)
        - (point_a.x - point_b.x) * (sum_y - point_a.y * cnt))

\* The inner loop (lines 95-113): idx runs over range_start..range_end-1;
\* max_area starts at -1.0 and max_area_point at range_start; a candidate
\* replaces the maximum only when its area is strictly larger.
RECURSIVE lttb_max_area_point(_, _, _, _, _, _, _, _, _)
lttb_max_area_point(data, idx, range_end, point_a, sum_x, sum_y, cnt, max_area, max_area_point) ==
    IF idx >= range_end \/ idx >= Len(data) THEN max_area_point
    ELSE LET area == lttb_area(point_a, At(data, idx), sum_x, sum_y, cnt) IN
         IF area > max_area
         THEN lttb_max_area_point(data, idx + 1, range_end, point_a, sum_x, sum_y, cnt, area, idx)
         ELSE lttb_max_area_point(data, idx + 1, range_end, point_a, sum_x, sum_y, cnt, max_area, max_area_point)

\* One iteration of the bucket loop (lines 70-117): the index selected for
\* bucket i, given the index selected before it.
lttb_select(data, threshold, i, point_index) ==
    LET n == Len(data)
        avg_range_start == lttb_bucket_floor(i + 1, n, threshold)
        avg_range_end == Min2(lttb_bucket_floor(i + 2, n, threshold), n)
        cnt == avg_range_end - avg_range_start
        sum_x == lttb_range_sum(data, avg_range_start, avg_range_end, "x")
        sum_y == lttb_range_sum(data, avg_range_start, avg_range_end, "y")
        range_start == lttb_bucket_floor(i, n, threshold)
        range_end == avg_range_start
    IN lttb_max_area_point(data, range_start, range_end, At(data, point_index),
                           sum_x, sum_y, cnt, -1, range_start)

\* for i in 0..(threshold - 2): the number of buckets (line 69), off by one
lttb_buckets_short(threshold) == threshold - 3

\* for i in 0..(threshold - 2): the number of buckets (line 69)
lttb_buckets(threshold) == threshold - 2

\* The bucket loop (lines 69-118): the indices selected for buckets i, i+1, ...
RECURSIVE lttb_loop(_, _, _, _)
lttb_loop(data, threshold, i, point_index) ==
    IF i >= lttb_buckets(threshold) THEN <<>>
    ELSE LET max_area_point == lttb_select(data, threshold, i, point_index) IN
         <<max_area_point>> \o lttb_loop(data, threshold, i + 1, max_area_point)

\* threshold 1 is treated like threshold 2: the first and the last point
lttb_indices_first_and_last(data, threshold) ==
    LET n == Len(data) IN
    IF threshold >= n \/ threshold = 0 THEN [k \in 1..n |-> k - 1]
    ELSE IF threshold <= 2 THEN <<0, n - 1>>
    ELSE <<0>> \o lttb_loop(data, threshold, 0, 0) \o <<n - 1>>

\* the input is returned as it is one threshold too early
lttb_indices_passthrough_early(data, threshold) ==
    LET n == Len(data) IN
    IF threshold + 1 >= n \/ threshold = 0 THEN [k \in 1..n |-> k - 1]
    ELSE IF threshold = 1 THEN <<0>>
    ELSE IF threshold = 2 THEN <<0, n - 1>>
    ELSE <<0>> \o lttb_loop(data, threshold, 0, 0) \o <<n - 1>>

\* The 0-based indices of the points lttb_downsample returns, in order.
lttb_indices(data, threshold) ==
    LET n == Len(data) IN
    IF threshold >= n \/ threshold = 0 THEN [k \in 1..n |-> k - 1]
    ELSE IF threshold = 1 THEN <<0>>
    ELSE IF threshold = 2 THEN <<0, n - 1>>
    ELSE <<0>> \o lttb_loop(data, threshold, 0, 0) \o <<n - 1>>

\* lttb_downsample(data, threshold) (lines 43-124)
lttb_downsample(data, threshold) ==
    LET idxs == lttb_indices(data, threshold) IN
    [k \in 1..Len(idxs) |-> At(data, idxs[k])]

InitLttb ==
    /\ op = "lttb_downsample"
    /\ pc = "call"
    /\ \E k \in 0..LttbMaxLen, t \in 0..(LttbMaxLen + 1) :
        \E d \in [1..k -> LttbPoints] :
            args = [data |-> d, threshold |-> t]
    /\ ret = NoRet
    /\ sel = NoRet

CallLttb ==
    /\ op = "lttb_downsample"
    /\ pc = "call"
    /\ pc' = "done"
    /\ ret' = lttb_downsample(args.data, args.threshold)
    /\ sel' = lttb_indices(args.data, args.threshold)
    /\ UNCHANGED <<op, args>>

SpecLttb == InitLttb /\ [][CallLttb]_vars

\* C1: for 2 <= t <= len(data), lttb_downsample(data, t) returns exactly t
\* points, the first equal to data[0] and the last equal to data[len - 1].
LttbLengthAndEnds ==
    (op = "lttb_downsample" /\ pc = "done"
        /\ 2 <= args.threshold /\ args.threshold <= Len(args.data))
    => /\ Len(ret) = args.threshold
       /\ ret[1] = args.data[1]
       /\ ret[Len(ret)] = args.data[Len(args.data)]

\* C1 witness: a call that went through the bucket loop (3 <= t < n) returned.
LttbLengthAndEndsWitness ==
    /\ op = "lttb_downsample" /\ pc = "done"
    /\ args.threshold = 4 /\ Len(args.data) = 5
    /\ Len(ret) = 4
    /\ ret[2] # args.data[2] \/ ret[3] # args.data[3]

M4MaxLen == 9

M4MaxPixels == 2

\* the longest input that is not sorted by x
M4MaxUnsortedLen == 5

M4Points == {DataPoint(px, py) : px \in 0..2, py \in 0..1}

\* The sequence of length k, sorted by non-decreasing x, whose first a points
\* have x = 0, whose next b - a points have x = 1 and whose other points have
\* x = 2, with the y values ys.
M4SortedData(k, a, b, ys) ==
    [i \in 1..k |-> DataPoint(IF i <= a THEN 0 ELSE IF i <= b THEN 1 ELSE 2, ys[i])]

\* in_bucket (lines 35-41) for the point with 0-based index i.  With
\* bucket_width = x_range / n_pixels, p.x >= bucket_start is
\* (p.x - x_min) * n_pixels >= bucket_idx * x_range, and p.x < bucket_end is
\* (p.x - x_min) * n_pixels < (bucket_idx + 1) * x_range (x_range > 0 here).
m4_in_bucket(data, n_pixels, bucket_idx, i) ==
    LET x_min == At(data, 0).x
        x_range == At(data, Len(data) - 1).x - x_min
        off == (At(data, i).x - x_min) * n_pixels
    IN /\ off >= bucket_idx * x_range
       /\ (off < (bucket_idx + 1) * x_range \/ bucket_idx = n_pixels - 1)

\* bucket_points (line 43): the 0-based indices of the points of the bucket,
\* in data order.
m4_bucket_points(data, n_pixels, bucket_idx) ==
    SelectSeq([k \in 1..Len(data) |-> k - 1],
              LAMBDA i : m4_in_bucket(data, n_pixels, bucket_idx, i))

\* Iterator::min_by over the bucket by y (lines 52-56): of several equally
\* minimum elements the first is returned.
RECURSIVE m4_min_by_y(_, _, _, _)
m4_min_by_y(data, bp, k, best) ==
    IF k > Len(bp) THEN best
    ELSE m4_min_by_y(data, bp, k + 1,
                     IF At(data, bp[k]).y < At(data, best).y THEN bp[k] ELSE best)

\* Iterator::max_by over the bucket by y (lines 58-62): of several equally
\* maximum elements the last is returned.
RECURSIVE m4_max_by_y(_, _, _, _)
m4_max_by_y(data, bp, k, best) ==
    IF k > Len(bp) THEN best
    ELSE m4_max_by_y(data, bp, k + 1,
                     IF At(data, bp[k]).y >= At(data, best).y THEN bp[k] ELSE best)

\* Insert index i into the x-sorted index sequence s after every element
\* whose x is <= its own (a stable insertion).
RECURSIVE m4_insert_by_x(_, _, _)
m4_insert_by_x(data, s, i) ==
    IF s = <<>> THEN <<i>>
    ELSE IF At(data, s[Len(s)]).x <= At(data, i).x THEN Append(s, i)
    ELSE Append(m4_insert_by_x(data, SubSeq(s, 1, Len(s) - 1), i), s[Len(s)])

\* pts left in the order [first, last, min_pt, max_pt]: the sort is missing
m4_sort_by_x_missing(data, pts) == pts

\* pts.sort_by(x) (line 66): slice::sort_by is a stable sort
m4_sort_by_x(data, pts) ==
    m4_insert_by_x(data, m4_insert_by_x(data, m4_insert_by_x(data, <<pts[1]>>, pts[2]), pts[3]), pts[4])

\* Push with de-duplication (lines 69-80): pt is skipped when it equals, in x
\* and y, the last point pushed so far (of this bucket or of an earlier one).
RECURSIVE m4_push_dedup(_, _, _, _)
m4_push_dedup(data, result, pts, k) ==
    IF k > Len(pts) THEN result
    ELSE LET pt == At(data, pts[k])
             dup == /\ result # <<>>
                    /\ At(data, result[Len(result)]).x = pt.x
                    /\ At(data, result[Len(result)]).y = pt.y
         IN m4_push_dedup(data, IF dup THEN result ELSE Append(result, pts[k]), pts, k + 1)

\* The bucket loop (lines 34-81), on the 0-based indices of the points.
RECURSIVE m4_loop(_, _, _, _)
m4_loop(data, n_pixels, bucket_idx, result) ==
    IF bucket_idx >= n_pixels THEN result
    ELSE LET bucket_points == m4_bucket_points(data, n_pixels, bucket_idx) IN
         IF bucket_points = <<>> THEN m4_loop(data, n_pixels, bucket_idx + 1, result)
         ELSE LET first == bucket_points[1]
                  last == bucket_points[Len(bucket_points)]
                  min_pt == m4_min_by_y(data, bucket_points, 2, first)
                  max_pt == m4_max_by_y(data, bucket_points, 2, first)
                  pts == m4_sort_by_x(data, <<first, last, min_pt, max_pt>>)
              IN m4_loop(data, n_pixels, bucket_idx + 1, m4_push_dedup(data, result, pts, 1))

\* Whether m4_downsample reaches the bucket loop (lines 15-29 all fall through)
m4_aggregates(data, n_pixels) ==
    /\ data # <<>> /\ n_pixels # 0
    /\ Len(data) > 4 * n_pixels
    /\ At(data, Len(data) - 1).x - At(data, 0).x > 0

\* the zero-width test of lines 26-29 is left out
m4_indices_no_width_test(data, n_pixels) ==
    IF data = <<>> \/ n_pixels = 0 THEN <<>>
    ELSE IF Len(data) <= 4 * n_pixels THEN [k \in 1..Len(data) |-> k - 1]
    ELSE m4_loop(data, n_pixels, 0, <<>>)

\* The 0-based indices of the points m4_downsample returns, in order.
m4_indices(data, n_pixels) ==
    IF data = <<>> \/ n_pixels = 0 THEN <<>>
    ELSE IF Len(data) <= 4 * n_pixels THEN [k \in 1..Len(data) |-> k - 1]
    ELSE IF At(data, Len(data) - 1).x - At(data, 0).x <= 0 THEN [k \in 1..Len(data) |-> k - 1]
    ELSE m4_loop(data, n_pixels, 0, <<>>)

\* m4_downsample(data, n_pixels) (lines 14-84)
m4_downsample(data, n_pixels) ==
    LET idxs == m4_indices(data, n_pixels) IN
    [k \in 1..Len(idxs) |-> At(data, idxs[k])]

InitM4 ==
    /\ op = "m4_downsample"
    /\ pc = "call"
    /\ \/ \E k \in 0..M4MaxLen, p \in 0..M4MaxPixels :
            \E a \in 0..k, ys \in [1..k -> 0..1] :
                \E b \in a..k :
                    args = [data |-> M4SortedData(k, a, b, ys), n_pixels |-> p]
       \/ \E k \in 0..M4MaxUnsortedLen, p \in 0..M4MaxPixels :
            \E d \in [1..k -> M4Points] :
                args = [data |-> d, n_pixels |-> p]
    /\ ret = NoRet
    /\ sel = NoRet

CallM4 ==
    /\ op = "m4_downsample"
    /\ pc = "call"
    /\ pc' = "done"
    /\ ret' = m4_downsample(args.data, args.n_pixels)
    /\ sel' = m4_indices(args.data, args.n_pixels)
    /\ UNCHANGED <<op, args>>

SpecM4 == InitM4 /\ [][CallM4]_vars

\* C2: m4_downsample(data, n_pixels) returns at most 4 * n_pixels points.
M4AtMost4PerPixel ==
    (op = "m4_downsample" /\ pc = "done") => Len(ret) <= 4 * args.n_pixels

M4Bucket(b) ==
    {i \in 0..(Len(args.data) - 1) : m4_in_bucket(args.data, args.n_pixels, b, i)}

\* The input indices the call emitted for pixel bucket b, in output order.
M4Emitted(b) == SelectSeq(sel, LAMBDA i : i \in M4Bucket(b))

\* The points emitted for each non-empty bucket are the bucket's first point,
\* its last point, a point of minimum y and a point of maximum y.
M4EmitsTheRoles ==
    \A b \in 0..(args.n_pixels - 1) :
        LET B == M4Bucket(b)
            E == M4Emitted(b)
            val(i) == At(args.data, i)
        IN B # {} =>
            LET first == CHOOSE i \in B : \A j \in B : i <= j
                last == CHOOSE i \in B : \A j \in B : i >= j
            IN \E mn \in B, mx \in B :
                /\ \A j \in B : val(mn).y <= val(j).y /\ val(mx).y >= val(j).y
                /\ {val(E[k]) : k \in 1..Len(E)} = {val(first), val(last), val(mn), val(mx)}

\* No input point is emitted twice.
M4NoPointTwice ==
    \A k1 \in 1..Len(sel), k2 \in 1..Len(sel) : k1 # k2 => sel[k1] # sel[k2]

\* The smallest and the largest y of the input are in the output.
M4KeepsExtremes ==
    \A i \in 1..Len(args.data) :
        ((\A j \in 1..Len(args.data) : args.data[i].y <= args.data[j].y)
         \/ (\A j \in 1..Len(args.data) : args.data[i].y >= args.data[j].y))
        => \E k \in 1..Len(ret) : ret[k].y = args.data[i].y

M4AggregatedSorted ==
    /\ op = "m4_downsample" /\ pc = "done"
    /\ SortedByX(args.data) /\ m4_aggregates(args.data, args.n_pixels)

\* C3: when m4_downsample aggregates x-sorted data, the points emitted for
\* each non-empty bucket are exactly its first, last, minimum-y and maximum-y
\* points, a point that fills several of these roles is emitted only once,
\* and so the smallest and largest y of the input are in the output.
M4BucketRolesOnce ==
    M4AggregatedSorted => (M4EmitsTheRoles /\ M4NoPointTwice /\ M4KeepsExtremes)

\* The parts of C3 that the code keeps: the emitted points are the four role
\* points, and the extremes of y are kept.
M4BucketRolesKept ==
    M4AggregatedSorted => (M4EmitsTheRoles /\ M4KeepsExtremes)

(***************************************************************************)
(* Option<T>: None, or Some(v).                                            *)
(***************************************************************************)
None == [some |-> FALSE]

Some(v) == [some |-> TRUE, val |-> v]

(***************************************************************************)
(* Nearest-point search (algorithms/nearest.rs).                           *)
(***************************************************************************)
NearestMaxLen == 4

NearestMaxX == 4

\* data.partition_point(|p| p.x < target_x) (line 12): on data sorted by x the
\* predicate holds on a prefix, whose length is returned.
RECURSIVE nearest_partition_point(_, _, _)
nearest_partition_point(data, target_x, i) ==
    IF i < Len(data) /\ At(data, i).x < target_x
    THEN nearest_partition_point(data, target_x, i + 1)
    ELSE i

\* The candidates on either side of the partition point (lines 15-19).
nearest_candidates(data, idx) ==
    IF idx = 0 THEN <<0>>
    ELSE IF idx >= Len(data) THEN <<Len(data) - 1>>
    ELSE <<idx - 1, idx>>

\* min_by that returns the last of several equally near candidates
nearest_min_by_last(data, target_x, candidates) ==
    IF Len(candidates) = 1 THEN candidates[1]
    ELSE LET da == Abs(At(data, candidates[1]).x - target_x)
             db == Abs(At(data, candidates[2]).x - target_x)
         IN IF db <= da THEN candidates[2] ELSE candidates[1]

\* min_by over the candidates by |x - target_x| (lines 21-28): Iterator::min_by
\* returns the first of several equally minimum elements.
nearest_min_by(data, target_x, candidates) ==
    IF Len(candidates) = 1 THEN candidates[1]
    ELSE LET da == Abs(At(data, candidates[1]).x - target_x)
             db == Abs(At(data, candidates[2]).x - target_x)
         IN IF db < da THEN candidates[2] ELSE candidates[1]

\* find_nearest_point(data, target_x) (lines 7-30)
find_nearest_point(data, target_x) ==
    IF data = <<>> THEN None
    ELSE LET idx == nearest_partition_point(data, target_x, 0)
             i == nearest_min_by(data, target_x, nearest_candidates(data, idx))
         IN Some(<<i, At(data, i)>>)

InitNearest ==
    /\ op = "find_nearest_point"
    /\ pc = "call"
    /\ \E k \in 0..NearestMaxLen, t \in (-1)..(NearestMaxX + 1) :
        \E xs \in [1..k -> 0..NearestMaxX], ys \in [1..k -> 0..1] :
            /\ \A i \in 1..(k - 1) : xs[i] <= xs[i + 1]
            /\ args = [data |-> [i \in 1..k |-> DataPoint(xs[i], ys[i])], target_x |-> t]
    /\ ret = NoRet
    /\ sel = NoRet

CallNearest ==
    /\ op = "find_nearest_point"
    /\ pc = "call"
    /\ pc' = "done"
    /\ ret' = find_nearest_point(args.data, args.target_x)
    /\ UNCHANGED <<op, args, sel>>

SpecNearest == InitNearest /\ [][CallNearest]_vars

\* The insertion position of target_x in the call's data: the number of
\* points with x < target_x.
NearestInsertion ==
    Cardinality({j \in 1..Len(args.data) : args.data[j].x < args.target_x})

\* The points right before and right after the insertion position exist and
\* are equally far from target_x.
NearestTie ==
    LET p == NearestInsertion IN
    /\ 0 < p /\ p < Len(args.data)
    /\ Abs(At(args.data, p - 1).x - args.target_x) = Abs(At(args.data, p).x - args.target_x)

\* C5: on data sorted by x, find_nearest_point returns None exactly when data
\* is empty, and otherwise (i, data[i]) with |data[i].x - target_x| minimal
\* over all indices; when the points before and after the insertion position
\* are equidistant from target_x, i is the earlier of the two.
NearestIsNearest ==
    (op = "find_nearest_point" /\ pc = "done" /\ SortedByX(args.data))
    => /\ (ret = None) <=> (args.data = <<>>)
       /\ ret # None =>
            LET i == ret.val[1] IN
            /\ i \in 0..(Len(args.data) - 1)
            /\ ret.val[2] = At(args.data, i)
            /\ \A j \in 0..(Len(args.data) - 1) :
                Abs(At(args.data, i).x - args.target_x) <= Abs(At(args.data, j).x - args.target_x)
            /\ NearestTie => i = NearestInsertion - 1

\* C5 witness: a call with target_x midway between two neighbours returned
\* the earlier one, which is not the first point.
NearestIsNearestWitness ==
    /\ op = "find_nearest_point" /\ pc = "done"
    /\ NearestTie
    /\ ret.val[1] = NearestInsertion - 1
    /\ ret.val[1] > 0

(***************************************************************************)
(* Statistics (algorithms/statistics.rs).                                  *)
(***************************************************************************)
StatMaxLen == 5

StatMaxVal == 4

\* The denominator of the quartile positions p = 0.25, 0.5, 0.75 (lines
\* 164-166): percentiles, and what box_plot_stats derives from them, are held
\* in quarters.
Quarters == 4

\* Insert v into the ascending sequence s, after the elements equal to it.
RECURSIVE sort_insert(_, _)
sort_insert(s, v) ==
    IF s = <<>> THEN <<v>>
    ELSE IF s[Len(s)] <= v THEN Append(s, v)
    ELSE Append(sort_insert(SubSeq(s, 1, Len(s) - 1), v), s[Len(s)])

\* no sort: the data as given
sort_skipped(data) == data

\* data.sort_by(|a, b| a.partial_cmp(b)...) (lines 47, 162, 240): ascending
RECURSIVE sort_asc(_)
sort_asc(data) ==
    IF data = <<>> THEN <<>>
    ELSE sort_insert(sort_asc(SubSeq(data, 1, Len(data) - 1)), data[Len(data)])

\* percentile_sorted(sorted, p) (lines 137-153) for p = p4 / 4, times 4.
\* h = p * (n - 1) = hq / 4 with hq = p4 * (n - 1); lo = floor(h) = hq div 4;
\* frac = h - lo = (hq mod 4) / 4; the result
\* sorted[lo] * (1 - frac) + sorted[lo + 1] * frac, times 4, is
\* sorted[lo] * (4 - hq mod 4) + sorted[lo + 1] * (hq mod 4).
percentile_sorted(sorted, p4) ==
    LET n == Len(sorted)
        hq == p4 * (n - 1)
        lo == hq \div Quarters
        fq == hq % Quarters
    IN IF n = 0 THEN 0
       ELSE IF n = 1 THEN Quarters * At(sorted, 0)
       ELSE IF lo + 1 >= n THEN Quarters * At(sorted, n - 1)
       ELSE At(sorted, lo) * (Quarters - fq) + At(sorted, lo + 1) * fq

\* x >= lower_fence (line 174) with lower_fence = q1 - 1.5 * iqr and q1, iqr
\* in quarters: 8 * x >= 2 * q1 - 3 * iqr
box_above_lower_fence(x, q1, iqr) == 2 * Quarters * x >= 2 * q1 - 3 * iqr

\* x <= upper_fence (line 180) with upper_fence = q3 + 1.5 * iqr
box_below_upper_fence(x, q3, iqr) == 2 * Quarters * x <= 2 * q3 + 3 * iqr

\* .find(|&x| x > lower_fence): the comparison made strict
box_lower_whisker_strict(sorted, q1, iqr) ==
    LET inside == SelectSeq(sorted, LAMBDA x : 2 * Quarters * x > 2 * q1 - 3 * iqr) IN
    IF inside = <<>> THEN q1 ELSE Quarters * inside[1]

\* lower_whisker (lines 171-175), in quarters: the first value of the sorted
\* data that is >= lower_fence, or q1 when there is none
box_lower_whisker(sorted, q1, iqr) ==
    LET inside == SelectSeq(sorted, LAMBDA x : box_above_lower_fence(x, q1, iqr)) IN
    IF inside = <<>> THEN q1 ELSE Quarters * inside[1]

\* the first value that is <= upper_fence in place of the last
box_upper_whisker_first(sorted, q3, iqr) ==
    LET inside == SelectSeq(sorted, LAMBDA x : box_below_upper_fence(x, q3, iqr)) IN
    IF inside = <<>> THEN q3 ELSE Quarters * inside[1]

\* upper_whisker (lines 176-181), in quarters: the last value of the sorted
\* data that is <= upper_fence, or q3 when there is none
box_upper_whisker(sorted, q3, iqr) ==
    LET inside == SelectSeq(sorted, LAMBDA x : box_below_upper_fence(x, q3, iqr)) IN
    IF inside = <<>> THEN q3 ELSE Quarters * inside[Len(inside)]

RECURSIVE seq_sum(_)
seq_sum(s) == IF s = <<>> THEN 0 ELSE s[1] + seq_sum(Tail(s))

\* box_plot_stats(data) (lines 158-200) on the data as sorted by line 162.
\* q1, median, q3, iqr and the whiskers are held in quarters (times 4), the
\* mean as the pair <<sum, n>> of its numerator and denominator, the outliers
\* as the data values themselves.
box_plot_stats(sorted) ==
    IF sorted = <<>> THEN None
    ELSE LET q1 == percentile_sorted(sorted, 1)
             med == percentile_sorted(sorted, 2)
             q3 == percentile_sorted(sorted, 3)
             iqr == q3 - q1
         IN Some([q1 |-> q1,
                  median |-> med,
                  q3 |-> q3,
                  iqr |-> iqr,
                  lower_whisker |-> box_lower_whisker(sorted, q1, iqr),
                  upper_whisker |-> box_upper_whisker(sorted, q3, iqr),
                  mean |-> <<seq_sum(sorted), Len(sorted)>>,
                  outliers |-> SelectSeq(sorted, LAMBDA x :
                                  ~box_above_lower_fence(x, q1, iqr)
                                  \/ ~box_below_upper_fence(x, q3, iqr))])

InitBoxPlot ==
    /\ op = "box_plot_stats"
    /\ pc = "call"
    /\ \E k \in 0..StatMaxLen : \E d \in [1..k -> 0..StatMaxVal] : args = [data |-> d]
    /\ ret = NoRet
    /\ sel = NoRet

\* data is &mut: the call leaves it sorted (line 162)
CallBoxPlot ==
    /\ op = "box_plot_stats"
    /\ pc = "call"
    /\ pc' = "done"
    /\ args' = [data |-> sort_asc(args.data)]
    /\ ret' = box_plot_stats(sort_asc(args.data))
    /\ UNCHANGED <<op, sel>>

SpecBoxPlot == InitBoxPlot /\ [][CallBoxPlot]_vars

\* The number of elements of s equal to v.
Count(s, v) == Cardinality({k \in 1..Len(s) : s[k] = v})

\* The data values of the call, as a set.
BoxValues == {args.data[k] : k \in 1..Len(args.data)}

\* x is not below the lower fence q1 - 1.5 * iqr of the returned statistics
\* (q1 and iqr are held in quarters: both sides are multiplied by 8).
BoxNotBelowFence(x) == 8 * x >= 2 * ret.val.q1 - 3 * ret.val.iqr

\* x is not above the upper fence q3 + 1.5 * iqr of the returned statistics.
BoxNotAboveFence(x) == 8 * x <= 2 * ret.val.q3 + 3 * ret.val.iqr

HistMaxFixed == 3

\* the largest bin count drawn for BinRule::Scott
HistMaxScott == 3

\* extent(data) (lines 6-24) of non-empty data: <<min, max>>
RECURSIVE extent_from(_, _, _, _)
extent_from(data, i, min, max) ==
    IF i >= Len(data) THEN <<min, max>>
    ELSE LET value == At(data, i) IN
         extent_from(data, i + 1,
                     IF value < min THEN value ELSE min,
                     IF value > max THEN value ELSE max)

extent(data) ==
    IF data = <<>> THEN None ELSE Some(extent_from(data, 1, At(data, 0), At(data, 0)))

\* (n as f64).log2().ceil(): the least c with 2^c >= n
RECURSIVE ceil_log2_from(_, _)
ceil_log2_from(n, c) == IF 2 ^ c >= n THEN c ELSE ceil_log2_from(n, c + 1)

\* BinRule::Sturges (lines 222-225, 249): ceil(log2 n) + 1
hist_sturges(n) == ceil_log2_from(n, 0) + 1

\* ((max_val - min_val) / h).ceil() for h = 2 * iqr * n^(-1/3) (lines 245-246),
\* iqr in quarters: the least k >= 0 with k >= range * n^(1/3) / (2 * iqr), that
\* is, with (k * iqr)^3 >= (2 * range)^3 * n.
RECURSIVE hist_fd_from(_, _, _, _)
hist_fd_from(range, n, iqr, k) ==
    IF (k * iqr) ^ 3 >= ((2 * range) ^ 3) * n THEN k
    ELSE hist_fd_from(range, n, iqr, k + 1)

\* a single bin in place of the Sturges count when the IQR is zero
hist_freedman_diaconis_one_bin(data, range) ==
    LET sorted == sort_asc(data)
        iqr == percentile_sorted(sorted, 3) - percentile_sorted(sorted, 1)
    IN IF iqr > 0 THEN hist_fd_from(range, Len(data), iqr, 0) ELSE 1

\* BinRule::FreedmanDiaconis (lines 238-251)
hist_freedman_diaconis(data, range) ==
    LET sorted == sort_asc(data)
        q1 == percentile_sorted(sorted, 1)
        q3 == percentile_sorted(sorted, 3)
        iqr == q3 - q1
    IN IF iqr > 0 THEN hist_fd_from(range, Len(data), iqr, 0)
       ELSE hist_sturges(Len(data))

\* The match on rule (lines 221-253).  BinRule::Scott computes
\* ceil(range / h) with h = 3.49 * sd * n^(-1/3): sd is a square root and
\* n^(-1/3) a cube root, which integer arithmetic does not hold; sd > 0 here
\* because max_val > min_val, and the bin count is some k >= 1, which the
\* caller of this operator draws (scott_k).
hist_rule_bins(data, rule, range, scott_k) ==
    IF rule.kind = "Sturges" THEN Max2(hist_sturges(Len(data)), 1)
    ELSE IF rule.kind = "Scott" THEN scott_k
    ELSE IF rule.kind = "FreedmanDiaconis" THEN hist_freedman_diaconis(data, range)
    ELSE rule.k

\* the clamp k.max(1) left out
hist_at_least_one_missing(k) == k

\* let k = k.max(1) (line 254)
hist_at_least_one(k) == Max2(k, 1)

\* the clamp idx.min(k - 1) left out
hist_bin_index_unclamped(val, min_val, range, k) == ((val - min_val) * k) \div range

\* The bin of val (lines 269-270): floor((val - min_val) / bin_width) with
\* bin_width = range / k, clamped to the last bin.
hist_bin_index(val, min_val, range, k) ==
    Min2(((val - min_val) * k) \div range, k - 1)

\* histogram_bins(data, rule) (lines 205-274).  A Bin's x0 and x1 are held
\* times the number of bins k (bin_width = range / k): bin i has
\* x0 = min_val * k + i * range and x1 = min_val * k + (i + 1) * range.
histogram_bins(data, rule, scott_k) ==
    IF data = <<>> THEN <<>>
    ELSE LET n == Len(data)
             min_val == extent(data).val[1]
             max_val == extent(data).val[2]
             range == max_val - min_val
         IN IF range = 0 THEN <<[x0 |-> min_val, x1 |-> min_val + 1, count |-> n]>>
            ELSE LET k == hist_at_least_one(hist_rule_bins(data, rule, range, scott_k))
                     in_range == SelectSeq(data, LAMBDA val : ~(val < min_val \/ val > max_val))
                 IN [b \in 1..k |->
                        [x0 |-> min_val * k + (b - 1) * range,
                         x1 |-> min_val * k + b * range,
                         count |-> Cardinality({j \in 1..Len(in_range) :
                                       hist_bin_index(in_range[j], min_val, range, k) = b - 1})]]

BinRules ==
    {[kind |-> "Sturges"], [kind |-> "Scott"], [kind |-> "FreedmanDiaconis"]}
        \cup {[kind |-> "Fixed", k |-> k] : k \in 0..HistMaxFixed}

InitHistogram ==
    /\ op = "histogram_bins"
    /\ pc = "call"
    /\ \E k \in 0..StatMaxLen, r \in BinRules :
        \E d \in [1..k -> 0..StatMaxVal] : args = [data |-> d, rule |-> r]
    /\ ret = NoRet
    /\ sel = NoRet

CallHistogram ==
    /\ op = "histogram_bins"
    /\ pc = "call"
    /\ pc' = "done"
    /\ \E scott_k \in IF args.rule.kind = "Scott" THEN 1..HistMaxScott ELSE {1} :
        ret' = histogram_bins(args.data, args.rule, scott_k)
    /\ UNCHANGED <<op, args, sel>>

SpecHistogram == InitHistogram /\ [][CallHistogram]_vars

\* The number of data values of the call that lie in bin b of the result: in
\* [x0, x1), and in [x0, x1] for the last bin (x0 and x1 are held times the
\* number of bins).
HistInBin(b) ==
    LET k == Len(ret) IN
    Cardinality({j \in 1..Len(args.data) :
        /\ ret[b].x0 <= args.data[j] * k
        /\ IF b = k THEN args.data[j] * k <= ret[b].x1 ELSE args.data[j] * k < ret[b].x1})

RECURSIVE HistCountSum(_, _)
HistCountSum(bins, b) == IF b > Len(bins) THEN 0 ELSE bins[b].count + HistCountSum(bins, b + 1)

\* C7: for non-empty data and every bin rule, the bin counts sum to
\* data.len(): each value is counted in the one bin whose interval holds it,
\* and the maximum value is counted in the last bin.
HistCountsEveryValue ==
    (op = "histogram_bins" /\ pc = "done" /\ args.data # <<>>)
    => /\ Len(ret) >= 1
       /\ HistCountSum(ret, 1) = Len(args.data)
       /\ \A b \in 1..Len(ret) : ret[b].count = HistInBin(b)
       /\ \A j \in 1..Len(args.data) :
            (\A i \in 1..Len(args.data) : args.data[i] <= args.data[j])
            => ret[Len(ret)].x0 <= args.data[j] * Len(ret)

\* C7 witness: a call returned three or more bins of which an inner one is
\* empty and the last one holds the maximum only.
HistCountsEveryValueWitness ==
    /\ op = "histogram_bins" /\ pc = "done"
    /\ Len(ret) >= 3
    /\ ret[Len(ret)].count = 1
    /\ ret[2].count = 0
    /\ ret[1].count >= 2

\* C8 as stated: histogram_bins(data, Fixed(k)) returns exactly k bins, for
\* every data and every k.
HistFixedAlwaysK ==
    (op = "histogram_bins" /\ pc = "done" /\ args.rule.kind = "Fixed")
    => Len(ret) = args.rule.k

\* C8 amended: histogram_bins(data, Fixed(k)) returns exactly k bins when the
\* data holds two different values and k >= 1; it returns one bin when the
\* data is non-empty and either all its values are equal or k = 0, and no bin
\* when the data is empty.
HistFixedBins ==
    (op = "histogram_bins" /\ pc = "done" /\ args.rule.kind = "Fixed")
    => Len(ret) =
        IF args.data = <<>> THEN 0
        ELSE IF \A i, j \in 1..Len(args.data) : args.data[i] = args.data[j] THEN 1
        ELSE IF args.rule.k = 0 THEN 1
        ELSE args.rule.k

\* C8 witness: Fixed(3) on data with different values returned three bins.
HistFixedBinsWitness ==
    /\ op = "histogram_bins" /\ pc = "done"
    /\ args.rule = [kind |-> "Fixed", k |-> 3]
    /\ \E i, j \in 1..Len(args.data) : args.data[i] # args.data[j]
    /\ Len(ret) = 3

(***************************************************************************)
(* Stacking (algorithms/stack.rs).                                         *)
(***************************************************************************)
StackMaxSeries == 3

StackMaxCategories == 2

StackValues == {-1, 0, 2}

\* baselines.get(ci).copied().unwrap_or(0.0) (line 41)
stack_baseline(baselines, ci) == IF ci < Len(baselines) THEN At(baselines, ci) ELSE 0

\* The stacked values of one series over the baselines (lines 37-45).
stack_one(values, baselines) ==
    [c \in 1..Len(values) |->
        LET y0 == stack_baseline(baselines, c - 1) IN [y0 |-> y0, y1 |-> y0 + values[c]]]

\* the baselines left as they were
stack_update_baselines_missing(baselines, stacked) == baselines

\* Update baselines (lines 48-52): baselines[ci] = stacked[ci].y1 for every ci
\* that both have.
stack_update_baselines(baselines, stacked) ==
    [c \in 1..Len(baselines) |-> IF c <= Len(stacked) THEN stacked[c].y1 ELSE baselines[c]]

\* The loop over the series (lines 36-58), from series si (0-based) on.
RECURSIVE stack_loop(_, _, _)
stack_loop(series_values, si, baselines) ==
    IF si >= Len(series_values) THEN <<>>
    ELSE LET stacked == stack_one(At(series_values, si), baselines) IN
         <<[series_index |-> si, values |-> stacked]>>
            \o stack_loop(series_values, si + 1, stack_update_baselines(baselines, stacked))

\* stack_series(series_values) (lines 27-61)
stack_series(series_values) ==
    IF series_values = <<>> THEN <<>>
    ELSE LET n_categories == Len(At(series_values, 0)) IN
         stack_loop(series_values, 0, [c \in 1..n_categories |-> 0])

\* The inputs: up to StackMaxSeries series of one length, and pairs of series
\* of any two lengths.
InitStack ==
    /\ op = "stack_series"
    /\ pc = "call"
    /\ \/ \E ns \in 0..StackMaxSeries, nc \in 0..StackMaxCategories :
            \E m \in [1..ns -> [1..nc -> StackValues]] : args = [series_values |-> m]
       \/ \E n1 \in 0..StackMaxCategories, n2 \in 0..StackMaxCategories :
            \E s1 \in [1..n1 -> StackValues], s2 \in [1..n2 -> StackValues] :
                args = [series_values |-> <<s1, s2>>]
    /\ ret = NoRet
    /\ sel = NoRet

CallStack ==
    /\ op = "stack_series"
    /\ pc = "call"
    /\ pc' = "done"
    /\ ret' = stack_series(args.series_values)
    /\ UNCHANGED <<op, args, sel>>

SpecStack == InitStack /\ [][CallStack]_vars

\* The sum of the values of the series before series i (1-based) at category c.
RECURSIVE StackSumBelow(_, _, _)
StackSumBelow(series_values, i, c) ==
    IF i <= 1 THEN 0
    ELSE series_values[i - 1][c] + StackSumBelow(series_values, i - 1, c)

\* C9: for series of equal length, stack_series returns one StackedSeries per
\* series, in input order, with series_index its position; y0 of series i at
\* category j is the sum of the earlier series' values at j (0 for the first),
\* y1 = y0 + series_values[i][j], so y0 is the previous series' y1; empty
\* input gives empty output.
StackCumulative ==
    (op = "stack_series" /\ pc = "done"
        /\ \A i, h \in 1..Len(args.series_values) :
            Len(args.series_values[i]) = Len(args.series_values[h]))
    => LET sv == args.series_values IN
       /\ Len(ret) = Len(sv)
       /\ \A i \in 1..Len(sv) :
            /\ ret[i].series_index = i - 1
            /\ Len(ret[i].values) = Len(sv[i])
            /\ \A c \in 1..Len(sv[i]) :
                /\ ret[i].values[c].y0 = StackSumBelow(sv, i, c)
                /\ ret[i].values[c].y1 = ret[i].values[c].y0 + sv[i][c]
                /\ i > 1 => ret[i].values[c].y0 = ret[i - 1].values[c].y1

\* C9 witness: three series were stacked and the third sits on a non-zero
\* baseline that differs from the second series' own value.
StackCumulativeWitness ==
    /\ op = "stack_series" /\ pc = "done"
    /\ Len(ret) = 3 /\ Len(ret[3].values) = 2
    /\ ret[3].values[2].y0 # 0
    /\ ret[3].values[2].y0 # args.series_values[2][2]
    /\ ret[3].values[2].y1 # ret[3].values[2].y0

(***************************************************************************)
(* Arc geometry (algorithms/arc.rs).                                       *)
(***************************************************************************)
ArcMaxLen == 5

ArcMaxVal == 2

\* the sum of all the values, the filter left out
RECURSIVE arcs_total_all(_)
arcs_total_all(values) ==
    IF values = <<>> THEN 0
    ELSE values[1] + arcs_total_all(Tail(values))

\* total (line 29): the sum of the values > 0
RECURSIVE arcs_total(_)
arcs_total(values) ==
    IF values = <<>> THEN 0
    ELSE (IF values[1] > 0 THEN values[1] ELSE 0) + arcs_total(Tail(values))

\* only the negative values are skipped
arcs_skips_negative(value) == value < 0

\* if value <= 0.0 { continue } (lines 38-40)
arcs_skips(value) == value <= 0

\* The loop over the values (lines 37-53).  Angles are held in units of
\* 2 * PI / (4 * total): -PI / 2 is -total and the span (value / total) * 2 * PI
\* is 4 * value.  Percentages are held in units of 1 / total:
\* (value / total) * 100 is 100 * value.
RECURSIVE arcs_loop(_, _, _)
arcs_loop(values, total, current_angle) ==
    IF values = <<>> THEN <<>>
    ELSE LET value == values[1] IN
         IF arcs_skips(value) THEN arcs_loop(Tail(values), total, current_angle)
         ELSE LET percentage == 100 * value
                  angle_span == 4 * value
                  end_angle == current_angle + angle_span
              IN <<[start_angle |-> current_angle, end_angle |-> end_angle,
                    value |-> value, percentage |-> percentage]>>
                    \o arcs_loop(Tail(values), total, end_angle)

\* compute_arcs(values) (lines 28-56)
compute_arcs(values) ==
    LET total == arcs_total(values) IN
    IF total <= 0 THEN <<>> ELSE arcs_loop(values, total, 0 - total)

InitArcs ==
    /\ op = "compute_arcs"
    /\ pc = "call"
    /\ \E k \in 0..ArcMaxLen : \E v \in [1..k -> (-1)..ArcMaxVal] : args = [values |-> v]
    /\ ret = NoRet
    /\ sel = NoRet

CallArcs ==
    /\ op = "compute_arcs"
    /\ pc = "call"
    /\ pc' = "done"
    /\ ret' = compute_arcs(args.values)
    /\ UNCHANGED <<op, args, sel>>

SpecArcs == InitArcs /\ [][CallArcs]_vars

\* C10: compute_arcs emits one slice per strictly positive input value, in
\* input order and carrying that value; zero and negative values give no
\* slice, and an input without a positive value gives no slices.
ArcsOnePerPositive ==
    (op = "compute_arcs" /\ pc = "done")
    => LET positive == SelectSeq(args.values, LAMBDA v : v > 0) IN
       /\ Len(ret) = Len(positive)
       /\ \A k \in 1..Len(positive) : ret[k].value = positive[k]
       /\ (\A k \in 1..Len(args.values) : args.values[k] <= 0) => ret = <<>>

\* C10 witness: an input with a zero and a negative value between different
\* positive values gave two slices.
ArcsOnePerPositiveWitness ==
    /\ op = "compute_arcs" /\ pc = "done"
    /\ Len(args.values) = 4 /\ Len(ret) = 2
    /\ args.values[2] = 0 /\ args.values[3] < 0
    /\ ret[1].value # ret[2].value

\* The sum of the positive values, computed from the input alone.
RECURSIVE ArcsPositiveSum(_)
ArcsPositiveSum(values) ==
    IF values = <<>> THEN 0
    ELSE Max2(values[1], 0) + ArcsPositiveSum(Tail(values))

RECURSIVE ArcsPercentageSum(_)
ArcsPercentageSum(arcs) ==
    IF arcs = <<>> THEN 0
    ELSE arcs[1].percentage + ArcsPercentageSum(Tail(arcs))

\* C11: for an input with a positive value the slices tile the full circle:
\* the first starts at -PI/2, each later one starts where the previous one
\* ends, each spans value/total of a turn and has percentage 100*value/total
\* (total = the sum of the positive values), the percentages sum to 100 and
\* the last slice ends one full turn after the first starts.  In the model's
\* units -PI/2 is -total, a full turn is 4 * total and 100 percent is
\* 100 * total.
ArcsTileTheCircle ==
    (op = "compute_arcs" /\ pc = "done"
        /\ \E k \in 1..Len(args.values) : args.values[k] > 0)
    => LET total == ArcsPositiveSum(args.values) IN
       /\ ret # <<>>
       /\ ret[1].start_angle = 0 - total
       /\ \A k \in 2..Len(ret) : ret[k].start_angle = ret[k-1].end_angle
       /\ \A k \in 1..Len(ret) :
            /\ ret[k].end_angle - ret[k].start_angle = 4 * ret[k].value
            /\ ret[k].percentage = 100 * ret[k].value
       /\ ArcsPercentageSum(ret) = 100 * total
       /\ ret[Len(ret)].end_angle = ret[1].start_angle + 4 * total

\* C11 witness: three slices of different sizes, with a skipped value between
\* them, tiled the circle.
ArcsTileTheCircleWitness ==
    /\ op = "compute_arcs" /\ pc = "done"
    /\ Len(ret) = 3 /\ Len(args.values) > 3
    /\ ret[1].value # ret[2].value
    /\ ret[2].start_angle = ret[1].end_angle
    /\ ret[3].end_angle - ret[1].start_angle = 4 * ArcsPositiveSum(args.values)

(***************************************************************************)
(* core/field_value.rs: the tidy data table.                               *)
(*                                                                         *)
(* A FieldValue is a record [tag, num, text, flag]; tag names the variant  *)
(* and only the field of that variant is meaningful.  A DataRow (a         *)
(* HashMap from column name to FieldValue) is a function whose domain is   *)
(* the set of the columns the row holds.  A DataTable is its rows.         *)
(***************************************************************************)
TableMaxRows == 3

FieldValue(tag, num, text, flag) == [tag |-> tag, num |-> num, text |-> text, flag |-> flag]

\* FieldValue::as_f64 (lines 30-37)
as_f64(fv) ==
    CASE fv.tag = "Numeric" -> Some(fv.num)
      [] fv.tag = "Timestamp" -> Some(fv.num)
      [] fv.tag = "Bool" -> Some(IF fv.flag THEN 1 ELSE 0)
      [] OTHER -> None

\* FieldValue::as_str (lines 40-45)
as_str(fv) == IF fv.tag = "Text" THEN Some(fv.text) ELSE None

\* f64::to_string, on the whole numbers the model's rows hold
f64_to_string(v) ==
    CASE v = 0 -> "0" [] v = 1 -> "1" [] v = 2 -> "2" [] v = 3 -> "3"
      [] v = 4 -> "4" [] v = 5 -> "5" [] v = 6 -> "6" [] v = 7 -> "7"
      [] v = 8 -> "8" [] v = 9 -> "9"

\* bool::to_string
bool_to_string(b) == IF b THEN "true" ELSE "false"

\* HashMap::get
row_get(row, col) == IF col \in DOMAIN row THEN Some(row[col]) ELSE None

\* A row built from what it holds (an Option) in the columns x, y and c.
DataRow(x, y, c) ==
    LET held == [x |-> x, y |-> y, c |-> c]
    IN [col \in {k \in {"x", "y", "c"} : held[k].some} |-> held[col].val]

\* The rows the model pushes: x is a number or a label (one label reads like
\* the number), y a timestamp, a flag or missing, c a label or Null.
TableRows ==
    {DataRow(Some(x), y, Some(c)) :
        x \in {FieldValue("Numeric", 1, "", FALSE),
                FieldValue("Text", 0, "1", FALSE),
                FieldValue("Text", 0, "b", FALSE)},
        y \in {Some(FieldValue("Timestamp", 2, "", FALSE)),
                Some(FieldValue("Bool", 0, "", TRUE)),
                None},
        c \in {FieldValue("Text", 0, "a", FALSE),
                FieldValue("Null", 0, "", FALSE)}}

\* the key of a row in group_by (lines 176-182)
group_key(row, col) ==
    LET got == row_get(row, col) IN
    IF ~got.some THEN "__null__"
    ELSE CASE got.val.tag = "Text" -> got.val.text
           [] got.val.tag = "Numeric" -> f64_to_string(got.val.num)
           [] got.val.tag = "Timestamp" -> f64_to_string(got.val.num)
           [] got.val.tag = "Bool" -> bool_to_string(got.val.flag)
           [] got.val.tag = "Null" -> "__null__"

\* every key is pushed to order, seen or not
group_order_always(order, groups, key) == Append(order, key)

\* if !groups.contains_key(&key) { order.push(key.clone()) } (lines 183-185)
group_order(order, groups, key) ==
    IF key \notin DOMAIN groups THEN Append(order, key) ELSE order

\* the loop over the rows (lines 175-187): order and groups after rows[1..n]
RECURSIVE group_loop(_, _, _)
group_loop(rows, col, n) ==
    IF n = 0 THEN [order |-> <<>>, groups |-> <<>>]
    ELSE LET before == group_loop(rows, col, n - 1)
             key == group_key(rows[n], col)
         IN [order |-> group_order(before.order, before.groups, key),
             \* groups.entry(key).or_default().push(row.clone()) (line 186)
             groups |-> [k \in DOMAIN before.groups \cup {key} |->
                IF k = key
                THEN Append(IF key \in DOMAIN before.groups
                            THEN before.groups[key] ELSE <<>>, rows[n])
                ELSE before.groups[k]]]

\* groups.remove(&key).unwrap_or_default(), over the keys of order in turn
\* (lines 189-195)
RECURSIVE group_collect(_, _)
group_collect(order, groups) ==
    IF order = <<>> THEN <<>>
    ELSE LET key == order[1]
             rows == IF key \in DOMAIN groups THEN groups[key] ELSE <<>>
         IN <<[key |-> key, rows |-> rows]>>
                \o group_collect(Tail(order),
                                 [k \in DOMAIN groups \ {key} |-> groups[k]])

\* DataTable::group_by (lines 171-196): a sequence of [key, rows]
group_by(rows, col) ==
    LET looped == group_loop(rows, col, Len(rows))
    IN group_collect(looped.order, looped.groups)

\* a row is kept when its x converts, whatever its y
extract_xy_needs_x_only(row, x_col, y_col) ==
    LET x == row_get(row, x_col) IN
    IF ~x.some THEN None
    ELSE LET xf == as_f64(x.val) IN
         IF ~xf.some THEN None
         ELSE LET y == row_get(row, y_col)
                  yf == IF y.some THEN as_f64(y.val) ELSE None
              IN Some(DataPoint(xf.val, IF yf.some THEN yf.val ELSE 0))

\* the closure of extract_xy (lines 302-306): the point of a row, or None
extract_xy_row(row, x_col, y_col) ==
    LET x == row_get(row, x_col) IN
    IF ~x.some THEN None
    ELSE LET xf == as_f64(x.val) IN
         IF ~xf.some THEN None
         ELSE LET y == row_get(row, y_col) IN
              IF ~y.some THEN None
              ELSE LET yf == as_f64(y.val) IN
                   IF ~yf.some THEN None
                   ELSE Some(DataPoint(xf.val, yf.val))

\* DataTable::extract_xy (lines 299-308): filter_map over the rows
RECURSIVE extract_xy(_, _, _)
extract_xy(rows, x_col, y_col) ==
    IF rows = <<>> THEN <<>>
    ELSE LET point == extract_xy_row(rows[1], x_col, y_col)
         IN (IF point.some THEN <<point.val>> ELSE <<>>)
                \o extract_xy(Tail(rows), x_col, y_col)

\* DataTable::to_dataset (lines 207-222): a Dataset, [series], of Series
\* [name, data, visible] (Series::new, data.rs lines 32-38).  The encoding is
\* held by the names of its x and y fields and of its color field (an Option).
to_dataset(rows, encoding) ==
    IF encoding.color.some
    THEN LET groups == group_by(rows, encoding.color.val)
         IN [series |-> [g \in 1..Len(groups) |->
                [name |-> groups[g].key,
                 data |-> extract_xy(groups[g].rows, encoding.x, encoding.y),
                 visible |-> TRUE]]]
    ELSE [series |-> <<[name |-> "default",
                        data |-> extract_xy(rows, encoding.x, encoding.y),
                        visible |-> TRUE]>>]

\* the ordered unique categories (lines 238-249), after rows[1..n]
RECURSIVE bar_categories(_, _, _)
bar_categories(rows, cat_col, n) ==
    IF n = 0 THEN <<>>
    ELSE LET ordered == bar_categories(rows, cat_col, n - 1)
             got == row_get(rows[n], cat_col)
         IN IF got.some /\ got.val.tag = "Text"
                /\ \A k \in 1..Len(ordered) : ordered[k] # got.val.text
            THEN Append(ordered, got.val.text)
            ELSE ordered

\* the predicate of find (lines 262-267, 281-286)
bar_row_matches(row, cat_col, cat) ==
    LET got == row_get(row, cat_col)
        s == IF got.some THEN as_str(got.val) ELSE None
    IN IF s.some THEN s.val = cat ELSE FALSE

\* the last matching row, where the code takes the first
bar_find_last(rows, cat_col, cat) ==
    LET hits == {i \in 1..Len(rows) : bar_row_matches(rows[i], cat_col, cat)}
    IN IF hits = {} THEN None
       ELSE Some(rows[CHOOSE i \in hits : \A j \in hits : j <= i])

\* Iterator::find: the first matching row
bar_find(rows, cat_col, cat) ==
    LET hits == {i \in 1..Len(rows) : bar_row_matches(rows[i], cat_col, cat)}
    IN IF hits = {} THEN None
       ELSE Some(rows[CHOOSE i \in hits : \A j \in hits : i <= j])

\* the value of one category (lines 259-269, 278-288)
bar_value(rows, cat_col, val_col, cat) ==
    LET found == bar_find(rows, cat_col, cat) IN
    IF ~found.some THEN 0
    ELSE LET got == row_get(found.val, val_col)
             v == IF got.some THEN as_f64(got.val) ELSE None
         IN IF v.some THEN v.val ELSE 0

\* DataTable::to_bar_dataset (lines 232-295): a BarDataset, [categories, series]
to_bar_dataset(rows, encoding) ==
    LET categories == bar_categories(rows, encoding.x, Len(rows)) IN
    IF encoding.color.some
    THEN LET groups == group_by(rows, encoding.color.val)
         IN [categories |-> categories,
             series |-> [g \in 1..Len(groups) |->
                [name |-> groups[g].key,
                 values |-> [k \in 1..Len(categories) |->
                    bar_value(groups[g].rows, encoding.x, encoding.y, categories[k])]]]]
    ELSE [categories |-> categories,
          series |-> <<[name |-> "default",
                        values |-> [k \in 1..Len(categories) |->
                            bar_value(rows, encoding.x, encoding.y, categories[k])]]>>]

\* The encodings the model converts with: x from column x, y from column y,
\* color absent or any of the columns.
TableEncodings ==
    {[x |-> "x", y |-> "y", color |-> color] :
        color \in {None, Some("c"), Some("x"), Some("y")}}

\* DataTable::default(): no rows
InitTable ==
    /\ op = "DataTable"
    /\ pc = "call"
    /\ args = [rows |-> <<>>]
    /\ ret = NoRet
    /\ sel = NoRet

\* DataTable::push (lines 128-130)
TablePush ==
    /\ op = "DataTable"
    /\ pc = "call"
    /\ Len(args.rows) < TableMaxRows
    /\ \E row \in TableRows : args' = [rows |-> Append(args.rows, row)]
    /\ UNCHANGED <<op, pc, ret, sel>>

CallGroupBy ==
    /\ op = "DataTable"
    /\ pc = "call"
    /\ \E col \in {"x", "y", "c", "z"} :
        /\ args' = [rows |-> args.rows, col |-> col]
        /\ ret' = group_by(args.rows, col)
    /\ op' = "group_by"
    /\ pc' = "done"
    /\ UNCHANGED sel

CallToDataset ==
    /\ op = "DataTable"
    /\ pc = "call"
    /\ \E encoding \in TableEncodings :
        /\ args' = [rows |-> args.rows, encoding |-> encoding]
        /\ ret' = to_dataset(args.rows, encoding)
    /\ op' = "to_dataset"
    /\ pc' = "done"
    /\ UNCHANGED sel

CallToBarDataset ==
    /\ op = "DataTable"
    /\ pc = "call"
    /\ \E encoding \in TableEncodings :
        /\ args' = [rows |-> args.rows, encoding |-> encoding]
        /\ ret' = to_bar_dataset(args.rows, encoding)
    /\ op' = "to_bar_dataset"
    /\ pc' = "done"
    /\ UNCHANGED sel

NextTable == TablePush \/ CallGroupBy \/ CallToDataset \/ CallToBarDataset

SpecTable == InitTable /\ [][NextTable]_vars

\* The index in the table of the first row whose group_by key is key (0: none).
TableFirstWithKey(rows, col, key) ==
    LET hits == {i \in 1..Len(rows) : group_key(rows[i], col) = key}
    IN IF hits = {} THEN 0 ELSE CHOOSE i \in hits : \A j \in hits : i <= j

RECURSIVE TableGroupSizes(_)
TableGroupSizes(groups) ==
    IF groups = <<>> THEN 0
    ELSE Len(groups[1].rows) + TableGroupSizes(Tail(groups))

\* C14: group_by(col) partitions the rows: the keys are pairwise distinct and
\* in first-occurrence order, each group holds, in table order, exactly the
\* rows whose stringified value of col is its key (missing or Null is the
\* sentinel key, a Text is its own key), every row's key is a group, and the
\* group sizes sum to the number of rows.
GroupByPartitions ==
    (op = "group_by" /\ pc = "done")
    => LET rows == args.rows
           col == args.col
       IN /\ \A g, h \in 1..Len(ret) : g # h => ret[g].key # ret[h].key
          /\ \A g \in 1..Len(ret) : TableFirstWithKey(rows, col, ret[g].key) > 0
          /\ \A g, h \in 1..Len(ret) :
                g < h => TableFirstWithKey(rows, col, ret[g].key)
                            < TableFirstWithKey(rows, col, ret[h].key)
          /\ \A g \in 1..Len(ret) :
                ret[g].rows = SelectSeq(rows, LAMBDA r : group_key(r, col) = ret[g].key)
          /\ \A i \in 1..Len(rows) :
                /\ \E g \in 1..Len(ret) : ret[g].key = group_key(rows[i], col)
                /\ (col \notin DOMAIN rows[i] \/ rows[i][col].tag = "Null")
                        => group_key(rows[i], col) = "__null__"
                /\ (col \in DOMAIN rows[i] /\ rows[i][col].tag = "Text")
                        => group_key(rows[i], col) = rows[i][col].text
          /\ TableGroupSizes(ret) = Len(rows)

\* C14 witness: three rows, the first and the third with the same key and
\* different from each other, the second Null in the column, gave the group of
\* rows 1 and 3 followed by the sentinel group.
GroupByPartitionsWitness ==
    /\ op = "group_by" /\ pc = "done"
    /\ Len(args.rows) = 3 /\ Len(ret) = 2
    /\ args.rows[1] # args.rows[3]
    /\ ret[1].rows = <<args.rows[1], args.rows[3]>>
    /\ ret[2].key = "__null__"
    /\ ret[2].rows = <<args.rows[2]>>

\* A row converts when its x and y columns both hold a value as_f64 accepts.
TableConverts(row, encoding) ==
    /\ encoding.x \in DOMAIN row /\ as_f64(row[encoding.x]).some
    /\ encoding.y \in DOMAIN row /\ as_f64(row[encoding.y]).some

\* The points of the converting rows of rows, in order.
TablePointsOf(rows, encoding) ==
    LET kept == SelectSeq(rows, LAMBDA r : TableConverts(r, encoding))
    IN [k \in 1..Len(kept) |->
            DataPoint(as_f64(kept[k][encoding.x]).val, as_f64(kept[k][encoding.y]).val)]

RECURSIVE TablePointCount(_)
TablePointCount(series) ==
    IF series = <<>> THEN 0
    ELSE Len(series[1].data) + TablePointCount(Tail(series))

\* C12: to_dataset returns one series named "default" without a color field
\* and one series per group_by group, named by the group key and in group
\* order, with one; each series holds, in table order, the point (x, y) of
\* exactly those of its rows whose x and y both convert with as_f64, so the
\* number of points is the number of converting rows.
ToDatasetSeries ==
    (op = "to_dataset" /\ pc = "done")
    => LET rows == args.rows
           encoding == args.encoding
       IN /\ ~encoding.color.some =>
                /\ Len(ret.series) = 1
                /\ ret.series[1].name = "default"
                /\ ret.series[1].data = TablePointsOf(rows, encoding)
          /\ encoding.color.some =>
                LET groups == group_by(rows, encoding.color.val) IN
                /\ Len(ret.series) = Len(groups)
                /\ \A g \in 1..Len(groups) :
                    /\ ret.series[g].name = groups[g].key
                    /\ ret.series[g].data = TablePointsOf(groups[g].rows, encoding)
          /\ TablePointCount(ret.series)
                = Len(SelectSeq(rows, LAMBDA r : TableConverts(r, encoding)))

\* C12 witness: with a color field, three rows in two groups, one row of the
\* first group skipped for its missing y and one of the second for its text x.
ToDatasetSeriesWitness ==
    /\ op = "to_dataset" /\ pc = "done"
    /\ args.encoding.color = Some("c")
    /\ Len(args.rows) = 3 /\ Len(ret.series) = 2
    /\ Len(ret.series[1].data) = 1 /\ ret.series[2].data = <<>>
    /\ "y" \notin DOMAIN args.rows[1]
    /\ args.rows[2].x.tag = "Text"
    /\ ret.series[1].data[1].x = args.rows[3].x.num

\* The index of the first row of rows whose x is the Text cat (0: none).
TableFirstWithText(rows, x_col, cat) ==
    LET hits == {i \in 1..Len(rows) :
                    x_col \in DOMAIN rows[i] /\ rows[i][x_col] = FieldValue("Text", 0, cat, FALSE)}
    IN IF hits = {} THEN 0 ELSE CHOOSE i \in hits : \A j \in hits : i <= j

\* The bar value the claim states for a series' rows and a category.
TableBarValue(rows, encoding, cat) ==
    LET first == TableFirstWithText(rows, encoding.x, cat) IN
    IF first = 0 THEN 0
    ELSE IF encoding.y \in DOMAIN rows[first] /\ as_f64(rows[first][encoding.y]).some
         THEN as_f64(rows[first][encoding.y]).val
         ELSE 0

\* C13: to_bar_dataset's categories are the distinct Text values of the x
\* column in first-occurrence order; there is one series named "default"
\* without color and one per group, named by its key, with color; every
\* series has one value per category, the as_f64 of y in the first of the
\* series' rows whose x text is the category, or 0 when there is no such row
\* or its y is missing or non-numeric.
ToBarDatasetValues ==
    (op = "to_bar_dataset" /\ pc = "done")
    => LET rows == args.rows
           encoding == args.encoding
           cats == ret.categories
           groups == IF encoding.color.some
                     THEN group_by(rows, encoding.color.val)
                     ELSE <<[key |-> "default", rows |-> rows]>>
       IN /\ \A k \in 1..Len(cats) : TableFirstWithText(rows, encoding.x, cats[k]) > 0
          /\ \A k, l \in 1..Len(cats) :
                k < l => TableFirstWithText(rows, encoding.x, cats[k])
                            < TableFirstWithText(rows, encoding.x, cats[l])
          /\ \A i \in 1..Len(rows) :
                (encoding.x \in DOMAIN rows[i] /\ rows[i][encoding.x].tag = "Text")
                    => \E k \in 1..Len(cats) : cats[k] = rows[i][encoding.x].text
          /\ Len(ret.series) = Len(groups)
          /\ \A g \in 1..Len(groups) :
                /\ ret.series[g].name = groups[g].key
                /\ Len(ret.series[g].values) = Len(cats)
                /\ \A k \in 1..Len(cats) :
                    ret.series[g].values[k]
                        = TableBarValue(groups[g].rows, encoding, cats[k])

\* C13 witness: one series, two rows of the same category with different
\* values before a row of another category whose y is missing: the first
\* row's value and 0.
ToBarDatasetValuesWitness ==
    /\ op = "to_bar_dataset" /\ pc = "done"
    /\ ~args.encoding.color.some
    /\ Len(args.rows) = 3
    /\ ret.categories = <<"1", "b">>
    /\ as_str(args.rows[1].x) = Some("1") /\ as_str(args.rows[2].x) = Some("1")
    /\ row_get(args.rows[1], "y") = Some(FieldValue("Timestamp", 2, "", FALSE))
    /\ row_get(args.rows[2], "y") = Some(FieldValue("Bool", 0, "", TRUE))
    /\ row_get(args.rows[3], "y") = None
    /\ ret.series[1].values = <<2, 0>>

(***************************************************************************)
(* core/scale.rs: the linear, logarithmic and band scales.                 *)
(*                                                                         *)
(* The f64 values a scale computes are exact rationals [n, d] here, d > 0; *)
(* a division by zero gives d = 0, the model's value for what is not a     *)
(* finite number (NaN or an infinity), and every operation on such a value *)
(* gives such a value again.  The coordinates of a domain and of a range   *)
(* are whole numbers of units of f64::EPSILON / 2, so a width of one unit  *)
(* is not zero and yet below EPSILON.                                      *)
(***************************************************************************)
ScaleMaxVal == 3

BandMaxLen == 2

\* f64::EPSILON, in the units of the coordinates
EpsilonUnits == 2

Rat(n, d) == IF d < 0 THEN [n |-> 0 - n, d |-> 0 - d] ELSE [n |-> n, d |-> d]

RatAdd(a, b) == Rat(a.n * b.d + b.n * a.d, a.d * b.d)

RatSub(a, b) == Rat(a.n * b.d - b.n * a.d, a.d * b.d)

RatMul(a, b) == Rat(a.n * b.n, a.d * b.d)

RatDiv(a, b) == Rat(a.n * b.d, a.d * b.n)

\* a width of exactly f64::EPSILON counts as zero as well
linear_zero_width_inclusive(w) == Abs(w) <= EpsilonUnits

\* (d1 - d0).abs() < f64::EPSILON (lines 47, 61)
linear_zero_width(w) == Abs(w) < EpsilonUnits

\* LinearScale::map (lines 42-54); self is [domain, range], value a rational
linear_map(self, value) ==
    LET d0 == self.domain[1]
        d1 == self.domain[2]
        r0 == self.range[1]
        r1 == self.range[2]
    IN IF linear_zero_width(d1 - d0) THEN Rat(r0, 1)
       ELSE LET normalized == RatDiv(RatSub(value, Rat(d0, 1)), Rat(d1 - d0, 1))
            IN RatAdd(Rat(r0, 1), RatMul(normalized, Rat(r1 - r0, 1)))

\* LinearScale::inverse (lines 56-68)
linear_inverse(self, mapped) ==
    LET d0 == self.domain[1]
        d1 == self.domain[2]
        r0 == self.range[1]
        r1 == self.range[2]
    IN IF linear_zero_width(r1 - r0) THEN Rat(d0, 1)
       ELSE LET normalized == RatDiv(RatSub(mapped, Rat(r0, 1)), Rat(r1 - r0, 1))
            IN RatAdd(Rat(d0, 1), RatMul(normalized, Rat(d1 - d0, 1)))

\* No scale is constructed yet.
InitScale ==
    /\ op = "scale"
    /\ pc = "new"
    /\ args = NoRet
    /\ ret = NoRet
    /\ sel = NoRet

\* LinearScale::new (lines 31-33)
LinearNew ==
    /\ op = "scale"
    /\ pc = "new"
    /\ \E d0, d1, r0, r1 \in (-1)..ScaleMaxVal :
        args' = [self |-> [domain |-> <<d0, d1>>, range |-> <<r0, r1>>]]
    /\ op' = "LinearScale"
    /\ pc' = "ready"
    /\ UNCHANGED <<ret, sel>>

\* scale.map(value), on a drawn value or on what inverse returned
LinearMap ==
    /\ op = "LinearScale"
    /\ pc \in {"ready", "inverse"}
    /\ \E value \in (IF pc = "ready" THEN {Rat(v, 1) : v \in (-1)..ScaleMaxVal} ELSE {ret}) :
        /\ args' = [self |-> args.self, value |-> IF pc = "ready" THEN value ELSE args.value]
        /\ ret' = linear_map(args.self, value)
    /\ pc' = (IF pc = "ready" THEN "map" ELSE "inverse_map")
    /\ UNCHANGED <<op, sel>>

\* scale.inverse(mapped), on a drawn value or on what map returned
LinearInverse ==
    /\ op = "LinearScale"
    /\ pc \in {"ready", "map"}
    /\ \E mapped \in (IF pc = "ready" THEN {Rat(p, 1) : p \in (-1)..ScaleMaxVal} ELSE {ret}) :
        /\ args' = [self |-> args.self, value |-> IF pc = "ready" THEN mapped ELSE args.value]
        /\ ret' = linear_inverse(args.self, mapped)
    /\ pc' = (IF pc = "ready" THEN "inverse" ELSE "map_inverse")
    /\ UNCHANGED <<op, sel>>

\* The values the model gives a LogScale: powers of two, zero and a negative.
LogValues == {-1, 0, 1, 2, 4}

\* f64::log(self, base) where self and base are powers of two
f64_log(v, base) ==
    LET log2(p) == CASE p = 1 -> 0 [] p = 2 -> 1 [] p = 4 -> 2
    IN Rat(log2(v), log2(base))

\* the base is only required to be positive
log_base_positive(base) == base > 0

\* base > 0.0 && base != 1.0 (line 97)
log_base_valid(base) == base > 0 /\ base # 1

\* LogScale::with_base (lines 94-104): the scale, or a panic
log_with_base(domain, range, base) ==
    IF domain[1] > 0 /\ domain[2] > 0 /\ log_base_valid(base)
    THEN [panicked |-> FALSE, self |-> [domain |-> domain, range |-> range, base |-> base]]
    ELSE [panicked |-> TRUE]

\* LogScale::map (lines 108-123)
log_map(self, value) ==
    LET d0 == self.domain[1]
        d1 == self.domain[2]
        r0 == self.range[1]
        r1 == self.range[2]
    IN IF value <= 0 THEN Rat(r0, 1)
       ELSE LET log_d0 == f64_log(d0, self.base)
                log_d1 == f64_log(d1, self.base)
                log_value == f64_log(value, self.base)
                normalized == RatDiv(RatSub(log_value, log_d0), RatSub(log_d1, log_d0))
            IN RatAdd(Rat(r0, 1), RatMul(normalized, Rat(r1 - r0, 1)))

LogWithBase ==
    /\ op = "scale"
    /\ pc = "new"
    /\ \E d0, d1, base \in LogValues : \E r0, r1 \in {0, 1, ScaleMaxVal} :
        LET made == log_with_base(<<d0, d1>>, <<r0, r1>>, base) IN
        IF made.panicked
        THEN /\ args' = [domain |-> <<d0, d1>>, range |-> <<r0, r1>>, base |-> base]
             /\ pc' = "panicked"
        ELSE /\ args' = [self |-> made.self]
             /\ pc' = "ready"
    /\ op' = "LogScale"
    /\ UNCHANGED <<ret, sel>>

LogMap ==
    /\ op = "LogScale"
    /\ pc = "ready"
    /\ \E value \in LogValues :
        /\ args' = [self |-> args.self, value |-> value]
        /\ ret' = log_map(args.self, value)
    /\ pc' = "map"
    /\ UNCHANGED <<op, sel>>

\* the padding is stored as given
band_padding_unclamped(padding) == padding

\* padding.clamp(0.0, 1.0) (line 214)
band_padding(padding) ==
    IF padding.n < 0 THEN Rat(0, 1)
    ELSE IF padding.n > padding.d THEN Rat(1, 1)
    ELSE padding

\* BandScale::new (lines 213-220)
band_new(categories, range, padding) ==
    [categories |-> categories, range |-> range, padding |-> band_padding(padding)]

\* BandScale::step (lines 223-229)
band_step(self) ==
    IF self.categories = <<>> THEN Rat(0, 1)
    ELSE Rat(Abs(self.range[2] - self.range[1]), Len(self.categories))

\* BandScale::band_width (lines 232-234)
band_width(self) == RatMul(band_step(self), RatSub(Rat(1, 1), self.padding))

\* BandScale::map_index (lines 245-250)
band_map_index(self, idx) ==
    LET step == band_step(self)
        pad_offset == RatDiv(RatMul(step, self.padding), Rat(2, 1))
    IN RatAdd(RatAdd(Rat(self.range[1], 1), RatMul(Rat(idx, 1), step)), pad_offset)

\* BandScale::map_index_center (lines 253-255)
band_map_index_center(self, idx) ==
    RatAdd(band_map_index(self, idx), RatDiv(band_width(self), Rat(2, 1)))

\* BandScale::map_category (lines 239-242); idx counts from 0
band_map_category(self, name) ==
    LET hits == {i \in 1..Len(self.categories) : self.categories[i] = name}
    IN IF hits = {} THEN None
       ELSE Some(band_map_index(self, (CHOOSE i \in hits : \A j \in hits : i <= j) - 1))

BandNew ==
    /\ op = "scale"
    /\ pc = "new"
    /\ \E k \in 0..BandMaxLen : \E categories \in [1..k -> {"a", "b"}] :
       \E r0, r1 \in (-1)..ScaleMaxVal : \E halves \in (-1)..3 :
        args' = [self |-> band_new(categories, <<r0, r1>>, Rat(halves, 2)),
                 padding |-> Rat(halves, 2)]
    /\ op' = "BandScale"
    /\ pc' = "ready"
    /\ UNCHANGED <<ret, sel>>

BandStep ==
    /\ op = "BandScale"
    /\ pc = "ready"
    /\ ret' = band_step(args.self)
    /\ pc' = "step"
    /\ UNCHANGED <<op, args, sel>>

BandWidth ==
    /\ op = "BandScale"
    /\ pc = "ready"
    /\ ret' = band_width(args.self)
    /\ pc' = "band_width"
    /\ UNCHANGED <<op, args, sel>>

BandMapCategory ==
    /\ op = "BandScale"
    /\ pc = "ready"
    /\ \E name \in {"a", "b", "c"} :
        /\ args' = [self |-> args.self, padding |-> args.padding, name |-> name]
        /\ ret' = band_map_category(args.self, name)
    /\ pc' = "map_category"
    /\ UNCHANGED <<op, sel>>

BandMapIndex ==
    /\ op = "BandScale"
    /\ pc = "ready"
    /\ \E idx \in 0..BandMaxLen :
        /\ args' = [self |-> args.self, padding |-> args.padding, idx |-> idx]
        /\ ret' = band_map_index(args.self, idx)
    /\ pc' = "map_index"
    /\ UNCHANGED <<op, sel>>

BandMapIndexCenter ==
    /\ op = "BandScale"
    /\ pc = "ready"
    /\ \E idx \in 0..BandMaxLen :
        /\ args' = [self |-> args.self, padding |-> args.padding, idx |-> idx]
        /\ ret' = band_map_index_center(args.self, idx)
    /\ pc' = "map_index_center"
    /\ UNCHANGED <<op, sel>>

NextScale ==
    \/ LinearNew \/ LinearMap \/ LinearInverse
    \/ LogWithBase \/ LogMap
    \/ BandNew \/ BandStep \/ BandWidth
    \/ BandMapCategory \/ BandMapIndex \/ BandMapIndexCenter

SpecScale == InitScale /\ [][NextScale]_vars

\* Two finite rationals are the same number.
RatEq(a, b) == a.d # 0 /\ b.d # 0 /\ a.n * b.d = b.n * a.d

\* What C15 states of a scale and the results of its calls.
LinearRoundTrip ==
    /\ pc \in {"map_inverse", "inverse_map"} => RatEq(ret, args.value)
    /\ (pc = "map" /\ args.value = Rat(args.self.domain[1], 1))
            => RatEq(ret, Rat(args.self.range[1], 1))
    /\ (pc = "map" /\ args.value = Rat(args.self.domain[2], 1))
            => RatEq(ret, Rat(args.self.range[2], 1))

\* C15 as stated: for every LinearScale whose domain and range both have
\* non-zero width, inverse(map(v)) = v and map(inverse(p)) = p, and map sends
\* domain.0 to range.0 and domain.1 to range.1.
LinearRoundTripNonZeroWidth ==
    (op = "LinearScale" /\ pc # "ready"
        /\ args.self.domain[1] # args.self.domain[2]
        /\ args.self.range[1] # args.self.range[2])
    => LinearRoundTrip

\* C15 amended: the same for every LinearScale whose domain and range both
\* have a width of at least f64::EPSILON in absolute value, also for inverted
\* ranges and domains.
LinearRoundTripAboveEpsilon ==
    (op = "LinearScale" /\ pc # "ready"
        /\ Abs(args.self.domain[2] - args.self.domain[1]) >= EpsilonUnits
        /\ Abs(args.self.range[2] - args.self.range[1]) >= EpsilonUnits)
    => LinearRoundTrip

\* C15 witness: on a scale with an inverted range, a value outside the domain
\* was mapped to a fraction and inverse gave the value back.
LinearRoundTripWitness ==
    /\ op = "LinearScale" /\ pc = "map_inverse"
    /\ args.self.domain[2] - args.self.domain[1] >= EpsilonUnits
    /\ args.self.range[1] - args.self.range[2] > EpsilonUnits
    /\ args.value.n > args.self.domain[2]
    /\ ret.d # 1
    /\ RatEq(ret, args.value)

\* The position the claim states for index idx: range.0 + idx * step +
\* step * padding / 2 with step = |range.1 - range.0| / n, or range.0 when
\* there is no category.
BandPosition(self, idx) ==
    LET n == Len(self.categories)
        w == Abs(self.range[2] - self.range[1])
        p == self.padding
    IN IF n = 0 THEN Rat(self.range[1], 1)
       ELSE Rat(2 * n * p.d * self.range[1] + 2 * p.d * idx * w + w * p.n, 2 * n * p.d)

LogPanicsAndClamps ==
    (op = "LogScale")
    => /\ pc = "panicked" <=> "self" \notin DOMAIN args
       /\ pc = "panicked" =>
            (args.domain[1] <= 0 \/ args.domain[2] <= 0 \/ args.base <= 0 \/ args.base = 1)
       /\ pc # "panicked" =>
            /\ args.self.domain[1] > 0 /\ args.self.domain[2] > 0
            /\ args.self.base > 0 /\ args.self.base # 1
       /\ (pc = "map" /\ args.value <= 0) => RatEq(ret, Rat(args.self.range[1], 1))

\* C17 witness: a constructed LogScale whose range ends differ mapped a
\* negative value to range.0.
LogPanicsAndClampsWitness ==
    /\ op = "LogScale" /\ pc = "map"
    /\ args.value < 0
    /\ args.self.range[1] # args.self.range[2]
    /\ args.self.domain[1] # args.self.domain[2]
    /\ RatEq(ret, Rat(args.self.range[1], 1))

(***************************************************************************)
(* core/selection.rs: selections on chart data.  A Selection is a record   *)
(* whose kind names the variant: [kind |-> "Point", indices],              *)
(* [kind |-> "Interval", x, y] with x a pair and y an Option of a pair,    *)
(* or [kind |-> "Multi", selections].                                      *)
(***************************************************************************)
SelMaxVal == 2
SelMaxLen == 2

\* the bounds are stored in the order given
interval_x_unsorted(x_min, x_max) == [kind |-> "Interval", x |-> <<x_min, x_max>>, y |-> None]

\* Selection::interval_x (lines 35-45)
interval_x(x_min, x_max) ==
    [kind |-> "Interval",
     x |-> IF x_min <= x_max THEN <<x_min, x_max>> ELSE <<x_max, x_min>>,
     y |-> None]

\* Selection::interval_xy (lines 48-63)
interval_xy(x_min, x_max, y_min, y_max) ==
    [kind |-> "Interval",
     x |-> IF x_min <= x_max THEN <<x_min, x_max>> ELSE <<x_max, x_min>>,
     y |-> Some(IF y_min <= y_max THEN <<y_min, y_max>> ELSE <<y_max, y_min>>)]

\* Selection::contains_point (lines 75-85); index counts from 0
RECURSIVE contains_point(_, _, _)
contains_point(self, point, index) ==
    CASE self.kind = "Point" ->
            \E k \in 1..Len(self.indices) : self.indices[k] = index
      [] self.kind = "Interval" ->
            LET in_x == point.x >= self.x[1] /\ point.x <= self.x[2]
                in_y == IF self.y.some
                        THEN point.y >= self.y.val[1] /\ point.y <= self.y.val[2]
                        ELSE TRUE
            IN in_x /\ in_y
      [] self.kind = "Multi" ->
            \E k \in 1..Len(self.selections) :
                contains_point(self.selections[k], point, index)

\* Selection::is_empty (lines 66-72).  The bounds are whole numbers: a width
\* below f64::EPSILON in absolute value is the width 0.
is_empty(self) ==
    CASE self.kind = "Point" -> self.indices = <<>>
      [] self.kind = "Interval" -> Abs(self.x[2] - self.x[1]) = 0
      [] self.kind = "Multi" -> self.selections = <<>>

\* filter_by_selection (lines 91-97): the points the selection contains, each
\* asked with its 0-based position, in the order of data
RECURSIVE filter_by_selection(_, _)
filter_by_selection(data, selection) ==
    IF data = <<>> THEN <<>>
    ELSE LET n == Len(data)
             front == filter_by_selection(SubSeq(data, 1, n - 1), selection)
         IN IF contains_point(selection, data[n], n - 1)
            THEN Append(front, data[n])
            ELSE front

\* No selection is made yet.
InitSelection ==
    /\ op = "selection"
    /\ pc = "new"
    /\ args = NoRet
    /\ ret = NoRet
    /\ sel = NoRet

SelectionIntervalX ==
    /\ op = "selection"
    /\ pc = "new"
    /\ \E a, b \in 0..SelMaxVal :
        args' = [self |-> interval_x(a, b), given |-> <<a, b>>]
    /\ op' = "Selection"
    /\ pc' = "interval_x"
    /\ UNCHANGED <<ret, sel>>

SelectionIntervalXY ==
    /\ op = "selection"
    /\ pc = "new"
    /\ \E a, b, c, d \in 0..SelMaxVal :
        args' = [self |-> interval_xy(a, b, c, d), given |-> <<a, b, c, d>>]
    /\ op' = "Selection"
    /\ pc' = "interval_xy"
    /\ UNCHANGED <<ret, sel>>

\* Selection::point (lines 30-32)
SelectionPoint ==
    /\ op = "selection"
    /\ pc = "new"
    /\ \E n \in 0..SelMaxLen : \E indices \in [1..n -> 0..1] :
        args' = [self |-> [kind |-> "Point", indices |-> indices], given |-> indices]
    /\ op' = "Selection"
    /\ pc' = "point"
    /\ UNCHANGED <<ret, sel>>

\* Selection::Multi { selections } (lines 22-25) of point selections, interval
\* selections and the Multi of no selection
SelectionMulti ==
    /\ op = "selection"
    /\ pc = "new"
    /\ \E n \in 0..SelMaxLen :
       \E selections \in [1..n -> {[kind |-> "Point", indices |-> <<>>],
                                   [kind |-> "Point", indices |-> <<1>>],
                                   interval_x(1, 1),
                                   interval_x(0, SelMaxVal),
                                   [kind |-> "Multi", selections |-> <<>>]}] :
        args' = [self |-> [kind |-> "Multi", selections |-> selections],
                 given |-> selections]
    /\ op' = "Selection"
    /\ pc' = "multi"
    /\ UNCHANGED <<ret, sel>>

SelectionIsEmpty ==
    /\ op = "Selection"
    /\ pc \in {"point", "interval_x", "interval_xy", "multi"}
    /\ ret' = is_empty(args.self)
    /\ pc' = "is_empty"
    /\ UNCHANGED <<op, args, sel>>

SelectionFilter ==
    /\ op = "Selection"
    /\ pc \in {"point", "interval_x", "interval_xy", "multi"}
    /\ \E n \in 0..SelMaxLen :
       \E data \in [1..n -> {DataPoint(px, py) : px \in 0..SelMaxVal, py \in 0..1}] :
        /\ args' = [self |-> args.self, given |-> args.given, data |-> data]
        /\ ret' = filter_by_selection(data, args.self)
    /\ pc' = "filter_by_selection"
    /\ UNCHANGED <<op, sel>>

SelectionContainsPoint ==
    /\ op = "Selection"
    /\ pc \in {"point", "interval_x", "interval_xy", "multi"}
    /\ \E px, py \in 0..SelMaxVal : \E index \in 0..1 :
        /\ args' = [self |-> args.self, given |-> args.given,
                    point |-> DataPoint(px, py), index |-> index]
        /\ ret' = contains_point(args.self, DataPoint(px, py), index)
    /\ pc' = "contains_point"
    /\ UNCHANGED <<op, sel>>

NextSelection ==
    \/ SelectionPoint \/ SelectionIntervalX \/ SelectionIntervalXY \/ SelectionMulti
    \/ SelectionIsEmpty \/ SelectionContainsPoint \/ SelectionFilter

SpecSelection == InitSelection /\ [][NextSelection]_vars

\* C18: interval_x(a, b) and interval_xy(a, b, c, d) store bounds with
\* min <= max, so interval_x(a, b) equals interval_x(b, a); contains_point
\* holds exactly for the points with min(a,b) <= x <= max(a,b) and, for
\* interval_xy, min(c,d) <= y <= max(c,d), bounds included, whatever the index.
IntervalNormalized ==
    (op = "Selection" /\ args.self.kind = "Interval")
    => LET self == args.self
           g == args.given
       IN /\ self.x[1] <= self.x[2]
          /\ self.x = <<Min2(g[1], g[2]), Max2(g[1], g[2])>>
          /\ self.y.some <=> Len(g) = 4
          /\ self.y.some =>
                /\ self.y.val[1] <= self.y.val[2]
                /\ self.y.val = <<Min2(g[3], g[4]), Max2(g[3], g[4])>>
          /\ Len(g) = 2 => self = interval_x(g[2], g[1])
          /\ pc = "contains_point" =>
                (ret <=> /\ Min2(g[1], g[2]) <= args.point.x
                         /\ args.point.x <= Max2(g[1], g[2])
                         /\ Len(g) = 4 =>
                                /\ Min2(g[3], g[4]) <= args.point.y
                                /\ args.point.y <= Max2(g[3], g[4]))

\* C18 witness: interval_x given its bounds in descending order contains a
\* point on its upper bound.
IntervalNormalizedWitness ==
    /\ op = "Selection" /\ pc = "contains_point"
    /\ Len(args.given) = 2
    /\ args.given[1] > args.given[2]
    /\ args.point.x = args.given[1]
    /\ args.index = 1
    /\ ret

(***************************************************************************)
(* algorithms/statistics.rs: the remaining functions.  Data values are     *)
(* whole numbers, results are exact rationals; for whole numbers a         *)
(* magnitude below f64::EPSILON is 0.                                      *)
(***************************************************************************)
\* mean (lines 29-36)
mean(data) == IF data = <<>> THEN None ELSE Some(Rat(seq_sum(data), Len(data)))

\* median (lines 42-55), of the data as line 47 sorted it
median(sorted) ==
    IF sorted = <<>> THEN None
    ELSE LET mid == Len(sorted) \div 2 IN
         IF Len(sorted) % 2 = 0
         THEN Some(Rat(At(sorted, mid - 1) + At(sorted, mid), 2))
         ELSE Some(Rat(At(sorted, mid), 1))

\* the sum over data of (n * x - sum) * (n * y - sum_y): n * n times the sum
\* of (x - x_mean) * (y - y_mean) (lines 66-67, 359-363)
RECURSIVE sum_of_products(_, _, _, _, _)
sum_of_products(xs, ys, n, sx, sy) ==
    IF xs = <<>> THEN 0
    ELSE (n * xs[1] - sx) * (n * ys[1] - sy)
            + sum_of_products(Tail(xs), Tail(ys), n, sx, sy)

\* std_dev (lines 60-70): the result is held by its square, the variance
std_dev(data) ==
    IF Len(data) < 2 THEN None
    ELSE LET n == Len(data)
             s == seq_sum(data)
         IN Some([squared |-> Rat(sum_of_products(data, data, n, s, s), n * n * (n - 1))])

\* an empty result also when the window is the whole data
sma_no_window_or_all(n, window) == window = 0 \/ window >= n

\* window == 0 || window > data.len() (line 321)
sma_no_window(n, window) == window = 0 \/ window > n

\* sma (lines 320-327)
sma(data, window) ==
    IF sma_no_window(Len(data), window) THEN <<>>
    ELSE [i \in 1..(Len(data) - window + 1) |->
            Rat(seq_sum(SubSeq(data, i, i + window - 1)), window)]

\* result[0..n) of ema (lines 338-344), alpha already clamped
RECURSIVE ema_result(_, _, _)
ema_result(data, alpha, n) ==
    IF n = 1 THEN <<Rat(data[1], 1)>>
    ELSE LET result == ema_result(data, alpha, n - 1)
             prev == result[n - 1]
         IN Append(result, RatAdd(RatMul(alpha, Rat(data[n], 1)),
                                  RatMul(RatSub(Rat(1, 1), alpha), prev)))

\* ema (lines 333-345)
ema(data, alpha) ==
    IF data = <<>> THEN <<>>
    ELSE ema_result(data,
                    IF alpha.n < 0 THEN Rat(0, 1)
                    ELSE IF alpha.n > alpha.d THEN Rat(1, 1) ELSE alpha,
                    Len(data))

\* linear_regression (lines 351-370); points is a sequence of <<x, y>>.  den
\* is n * n times the code's den, a whole number: below f64::EPSILON only if 0.
linear_regression(points) ==
    LET n == Len(points)
        xs == [i \in 1..n |-> points[i][1]]
        ys == [i \in 1..n |-> points[i][2]]
        sx == seq_sum(xs)
        sy == seq_sum(ys)
        num == sum_of_products(xs, ys, n, sx, sy)
        den == sum_of_products(xs, xs, n, sx, sx)
    IN IF n < 2 THEN None
       ELSE IF den = 0 THEN None
       ELSE LET beta1 == Rat(num, den)
                beta0 == RatSub(Rat(sy, n), RatMul(beta1, Rat(sx, n)))
            IN Some(<<beta0, beta1>>)

\* gaussian_kde (lines 280-314).  The grid and the densities need exp and
\* powf; the model keeps the lengths of xs and ys.
gaussian_kde(data, n_points) ==
    IF Len(data) < 2 \/ n_points = 0 THEN None
    ELSE LET sd == std_dev(data) IN
         IF ~sd.some THEN None
         ELSE IF sd.val.squared.n <= 0 THEN None
         ELSE Some([xs_len |-> n_points, ys_len |-> n_points])

InitStatistics ==
    /\ pc = "call"
    /\ ret = NoRet
    /\ sel = NoRet
    /\ \/ /\ op \in {"extent", "mean", "median", "std_dev"}
          /\ \E k \in 0..(StatMaxLen - 1) : \E d \in [1..k -> 0..StatMaxVal] :
                args = [data |-> d]
       \/ /\ op = "sma"
          /\ \E k \in 0..(StatMaxLen - 1) : \E d \in [1..k -> 0..StatMaxVal] :
             \E window \in 0..StatMaxLen :
                args = [data |-> d, window |-> window]
       \/ /\ op = "ema"
          /\ \E k \in 0..(StatMaxLen - 1) : \E d \in [1..k -> 0..StatMaxVal] :
             \E halves \in (-1)..3 :
                args = [data |-> d, alpha |-> Rat(halves, 2)]
       \/ /\ op = "linear_regression"
          /\ \E k \in 0..(StatMaxLen - 2) :
             \E p \in [1..k -> (0..StatMaxVal) \X (0..1)] :
                args = [points |-> p]
       \/ /\ op = "gaussian_kde"
          /\ \E k \in 0..(StatMaxLen - 1) : \E d \in [1..k -> 0..StatMaxVal] :
             \E n_points \in 0..2 :
                args = [data |-> d, n_points |-> n_points]

CallExtent ==
    /\ op = "extent" /\ pc = "call"
    /\ pc' = "done"
    /\ ret' = extent(args.data)
    /\ UNCHANGED <<op, args, sel>>

CallMean ==
    /\ op = "mean" /\ pc = "call"
    /\ pc' = "done"
    /\ ret' = mean(args.data)
    /\ UNCHANGED <<op, args, sel>>

\* data is &mut: the call leaves it sorted (line 47); empty data is returned
\* on before the sort
CallMedian ==
    /\ op = "median" /\ pc = "call"
    /\ pc' = "done"
    /\ args' = [data |-> sort_asc(args.data)]
    /\ ret' = median(sort_asc(args.data))
    /\ UNCHANGED <<op, sel>>

CallStdDev ==
    /\ op = "std_dev" /\ pc = "call"
    /\ pc' = "done"
    /\ ret' = std_dev(args.data)
    /\ UNCHANGED <<op, args, sel>>

CallSma ==
    /\ op = "sma" /\ pc = "call"
    /\ pc' = "done"
    /\ ret' = sma(args.data, args.window)
    /\ UNCHANGED <<op, args, sel>>

CallEma ==
    /\ op = "ema" /\ pc = "call"
    /\ pc' = "done"
    /\ ret' = ema(args.data, args.alpha)
    /\ UNCHANGED <<op, args, sel>>

CallLinearRegression ==
    /\ op = "linear_regression" /\ pc = "call"
    /\ pc' = "done"
    /\ ret' = linear_regression(args.points)
    /\ UNCHANGED <<op, args, sel>>

CallGaussianKde ==
    /\ op = "gaussian_kde" /\ pc = "call"
    /\ pc' = "done"
    /\ ret' = gaussian_kde(args.data, args.n_points)
    /\ UNCHANGED <<op, args, sel>>

NextStatistics ==
    \/ CallExtent \/ CallMean \/ CallMedian \/ CallStdDev
    \/ CallSma \/ CallEma \/ CallLinearRegression \/ CallGaussianKde
    \/ CallBoxPlot \/ CallHistogram

SpecStatistics ==
    (InitStatistics \/ InitBoxPlot \/ InitHistogram) /\ [][NextStatistics]_vars

\* All the values of data are the same.
StatAllEqual(data) == \A i, j \in 1..Len(data) : data[i] = data[j]

IsAscending(s) == \A k \in 1..(Len(s) - 1) : s[k] <= s[k + 1]

\* a and b hold the same values the same number of times.
SameMultiset(a, b) ==
    /\ Len(a) = Len(b)
    /\ \A k \in 1..Len(a) : Count(a, a[k]) = Count(b, a[k])

\* C23: median and box_plot_stats are the only statistics functions that
\* modify their argument: the step in which either returns leaves in the
\* argument the same multiset of values, in ascending order; the step in which
\* any other function returns (histogram_bins with the FreedmanDiaconis rule
\* included) leaves its arguments as they were.
StatFrame ==
    [][(pc = "call" /\ pc' = "done")
        => IF op \in {"median", "box_plot_stats"}
           THEN /\ SameMultiset(args'.data, args.data)
                /\ IsAscending(args'.data)
           ELSE args' = args]_vars

\* C23 witness: median is called on three values in descending order and its
\* return leaves them in ascending order.
StatFrameWitness ==
    /\ op = "median" /\ pc = "call"
    /\ args.data = <<2, 1, 0>>
    /\ ENABLED (CallMedian /\ args'.data = <<0, 1, 2>> /\ ret' = Some(Rat(1, 1)))

(***************************************************************************)
(* components/charts/waterfall.rs: the bar layouts and the tooltip entries *)
(* of WaterfallChart.  Bar values are whole numbers.                       *)
(***************************************************************************)
WaterfallMaxLen == 3
WaterfallMaxVal == 1

\* the running total with a Total bar adding its value
RECURSIVE waterfall_running_total_adds(_)
waterfall_running_total_adds(bars) ==
    IF bars = <<>> THEN 0
    ELSE LET bar == bars[Len(bars)]
             base == waterfall_running_total_adds(SubSeq(bars, 1, Len(bars) - 1))
         IN IF bar.kind = "Start" THEN bar.value ELSE base + bar.value

\* `running` of computed after the loop went over bars (lines 73, 76-117):
\* 0.0 at first, set by a Start bar, added to by a Delta bar
RECURSIVE waterfall_running(_)
waterfall_running(bars) ==
    IF bars = <<>> THEN 0
    ELSE LET bar == bars[Len(bars)]
             base == waterfall_running(SubSeq(bars, 1, Len(bars) - 1))
         IN IF bar.kind = "Start" THEN bar.value
            ELSE IF bar.kind = "Delta" THEN base + bar.value
            ELSE base

\* the BarLayout pushed for bar when `running` is base (lines 77-116)
waterfall_layout(bar, base) ==
    IF bar.kind = "Start"
    THEN [label |-> bar.label, baseline |-> 0, top |-> bar.value,
          color |-> "#4CAF50", connector_y |-> 0]
    ELSE IF bar.kind = "Delta"
    THEN LET running == base + bar.value IN
         [label |-> bar.label,
          baseline |-> IF bar.value >= 0 THEN base ELSE running,
          top |-> IF bar.value >= 0 THEN running ELSE base,
          color |-> IF bar.value >= 0 THEN "#26a69a" ELSE "#ef5350",
          connector_y |-> 0]
    ELSE [label |-> bar.label, baseline |-> 0, top |-> base,
          color |-> "#607D8B", connector_y |-> 0]

\* the computed memo (lines 70-120): one BarLayout per bar, in order
computed(bars) ==
    [k \in 1..Len(bars) |-> waterfall_layout(bars[k], waterfall_running(SubSeq(bars, 1, k - 1)))]

\* entries_memo (lines 144-158): the bars zipped with their layouts
entries_memo(bars) ==
    [k \in 1..Len(bars) |->
        [label |-> bars[k].label, value |-> bars[k].value,
         running_total |-> computed(bars)[k].top,
         kind |-> bars[k].kind, color |-> computed(bars)[k].color]]

\* the data signal holds any bars (data.rs lines 119-155); a memo is read
InitWaterfall ==
    /\ op \in {"computed", "entries_memo"}
    /\ pc = "call"
    /\ \E n \in 0..WaterfallMaxLen :
       \E kinds \in [1..n -> {"Start", "Delta", "Total"}] :
       \E values \in [1..n -> (-WaterfallMaxVal)..WaterfallMaxVal] :
          args = [data |-> [k \in 1..n |->
                    [label |-> "bar", value |-> values[k], kind |-> kinds[k]]]]
    /\ ret = NoRet
    /\ sel = NoRet

CallComputed ==
    /\ op = "computed" /\ pc = "call"
    /\ pc' = "done"
    /\ ret' = computed(args.data)
    /\ UNCHANGED <<op, args, sel>>

CallEntriesMemo ==
    /\ op = "entries_memo" /\ pc = "call"
    /\ pc' = "done"
    /\ ret' = entries_memo(args.data)
    /\ UNCHANGED <<op, args, sel>>

NextWaterfall == CallComputed \/ CallEntriesMemo

SpecWaterfall == InitWaterfall /\ [][NextWaterfall]_vars

\* The index of the last Start bar of bars, 0 if there is none.
LastStart(bars) ==
    LET starts == {k \in 1..Len(bars) : bars[k].kind = "Start"} IN
    IF starts = {} THEN 0 ELSE CHOOSE k \in starts : \A j \in starts : j <= k

\* The sum of the values of the Delta bars of bars.
RECURSIVE DeltaSum(_)
DeltaSum(bars) ==
    IF bars = <<>> THEN 0
    ELSE (IF bars[1].kind = "Delta" THEN bars[1].value ELSE 0) + DeltaSum(Tail(bars))

\* The value of the last Start bar (0 if none) plus the Delta values after it.
StartPlusDeltas(bars) ==
    LET s == LastStart(bars) IN
    (IF s = 0 THEN 0 ELSE bars[s].value) + DeltaSum(SubSeq(bars, s + 1, Len(bars)))

\* C24: going over the bars in order with a running total that starts at 0,
\* a Start bar sets the total to its value and is drawn from 0 to that value;
\* a Delta bar adds its value and is drawn between the totals before and
\* after it, baseline <= top; a Total bar is drawn from 0 to the total,
\* ignores its value and leaves the total unchanged.  After every prefix the
\* total is the value of the last Start bar (0 if none) plus the sum of the
\* Delta values after it.
WaterfallRunningTotal ==
    (op = "computed" /\ pc = "done")
    => /\ Len(ret) = Len(args.data)
       /\ waterfall_running(<<>>) = 0
       /\ \A k \in 1..Len(args.data) :
            LET bar == args.data[k]
                before == waterfall_running(SubSeq(args.data, 1, k - 1))
                after == waterfall_running(SubSeq(args.data, 1, k))
            IN /\ bar.kind = "Start" =>
                    /\ after = bar.value
                    /\ ret[k].baseline = 0 /\ ret[k].top = bar.value
               /\ bar.kind = "Delta" =>
                    /\ after = before + bar.value
                    /\ ret[k].baseline = Min2(before, after)
                    /\ ret[k].top = Max2(before, after)
                    /\ ret[k].baseline <= ret[k].top
               /\ bar.kind = "Total" =>
                    /\ after = before
                    /\ ret[k].baseline = 0 /\ ret[k].top = before
               /\ after = StartPlusDeltas(SubSeq(args.data, 1, k))

\* C24 witness: a Start bar, a falling Delta bar and a Total bar with a value
\* of its own were laid out; the Total bar shows the total 0 of the two.
WaterfallRunningTotalWitness ==
    /\ op = "computed" /\ pc = "done"
    /\ Len(args.data) = 3
    /\ args.data[1].kind = "Start" /\ args.data[1].value = 1
    /\ args.data[2].kind = "Delta" /\ args.data[2].value = -1
    /\ args.data[3].kind = "Total" /\ args.data[3].value = 1
    /\ ret[2].baseline = 0 /\ ret[2].top = 1
    /\ ret[3].baseline = 0 /\ ret[3].top = 0

\* C30: the tooltip entry of every bar reports as running_total the running
\* total after that bar was applied: the value of a Start bar, the previous
\* total plus the value of a Delta bar, the unchanged total for a Total bar.
TooltipRunningTotal ==
    (op = "entries_memo" /\ pc = "done")
    => /\ Len(ret) = Len(args.data)
       /\ \A k \in 1..Len(args.data) :
            ret[k].running_total = waterfall_running(SubSeq(args.data, 1, k))

\* The first index of the k-th bucket of the call: floor(k * w) + 1 with
\* w = (n - 2) / (threshold - 2).
LttbBucketStart(k) ==
    ((k * (Len(args.data) - 2)) \div (args.threshold - 2)) + 1

\* The area (times the size of the next bucket) of the triangle of the point
\* selected before bucket k, the candidate data[idx] and the centroid of the
\* bucket after k, which runs to the end of the data at most.
LttbTriangle(k, idx) ==
    LET lo == LttbBucketStart(k + 1)
        hi == Min2(LttbBucketStart(k + 2), Len(args.data))
        a == At(args.data, sel[k + 1])
        b == At(args.data, idx)
        cx == lttb_range_sum(args.data, lo, hi, "x")
        cy == lttb_range_sum(args.data, lo, hi, "y")
    IN Abs((a.x * (hi - lo) - cx) * (b.y - a.y) - (a.x - b.x) * (cy - a.y * (hi - lo)))

\* C25 for up to LttbMaxLen points, where f64 gives the ranges of exact
\* arithmetic: the k-th interior output point (k from 0 to threshold - 3)
\* comes from the index bucket
\* [floor(k * w) + 1, floor((k + 1) * w) + 1), w = (n - 2) / (threshold - 2);
\* the buckets are non-empty, consecutive and cover exactly 1 .. n - 2; the
\* next bucket of the final one is the last data point alone; the chosen
\* point has the largest triangle area with the point selected before and the
\* centroid of the next bucket, and is the first of the bucket with that
\* area.  The selected indices strictly increase and the output x are
\* non-decreasing when the input's are.
LttbBuckets ==
    (op = "lttb_downsample" /\ pc = "done"
        /\ 3 <= args.threshold /\ args.threshold < Len(args.data))
    => LET n == Len(args.data)
           last == args.threshold - 3
       IN /\ Len(sel) = args.threshold
          /\ LttbBucketStart(0) = 1
          /\ LttbBucketStart(last + 1) = n - 1
          /\ Min2(LttbBucketStart(last + 2), n) = n
          /\ \A k \in 0..last :
                LET chosen == sel[k + 2] IN
                /\ LttbBucketStart(k) < LttbBucketStart(k + 1)
                /\ LttbBucketStart(k) <= chosen /\ chosen < LttbBucketStart(k + 1)
                /\ \A idx \in LttbBucketStart(k)..(LttbBucketStart(k + 1) - 1) :
                      /\ LttbTriangle(k, idx) <= LttbTriangle(k, chosen)
                      /\ idx < chosen => LttbTriangle(k, idx) < LttbTriangle(k, chosen)
          /\ \A k \in 1..(Len(sel) - 1) : sel[k] < sel[k + 1]
          /\ \A k \in 1..Len(ret) : ret[k] = At(args.data, sel[k])
          /\ SortedByX(args.data) => SortedByX(ret)

\* Five points sorted by x at threshold 4 were sampled, buckets [1, 2) and
\* [2, 4); in the second both candidates have the same area and the first is
\* taken.
LttbBucketsWitness ==
    /\ op = "lttb_downsample" /\ pc = "done"
    /\ args.threshold = 4 /\ Len(args.data) = 5
    /\ SortedByX(args.data)
    /\ LttbTriangle(1, 2) = LttbTriangle(1, 3) /\ LttbTriangle(1, 2) > 0
    /\ sel = <<0, 1, 2, 4>>

\* A call chose the second point of a bucket of two, which has the larger
\* area.
LttbBucketsSecondTaken ==
    /\ op = "lttb_downsample" /\ pc = "done"
    /\ args.threshold = 4 /\ Len(args.data) = 5
    /\ LttbTriangle(1, 2) < LttbTriangle(1, 3)
    /\ sel = <<0, 1, 3, 4>>

(***************************************************************************)
(* The index ranges of the LTTB bucket loop as f64 computes them (lttb.rs  *)
(* lines 66-89).  A non-negative f64 below 256 is held as four limbs of 16 *)
(* binary places, <<l1, l2, l3, l4>> for                                   *)
(* (l1 * 2^48 + l2 * 2^32 + l3 * 2^16 + l4) / 2^56: 8 places before the    *)
(* point and 56 after it.  Every operation is the exact one followed by    *)
(* the rounding of IEEE 754 to 53 significant places, to nearest, ties to  *)
(* even.                                                                   *)
(***************************************************************************)
LttbRangesMaxLen == 17

\* limbs with every limb but the first brought below 2^16, the excess
\* carried to the limb on its left; i is the limb to start from
RECURSIVE f64_carry(_, _)
f64_carry(limbs, i) ==
    IF i = 1 THEN limbs
    ELSE f64_carry([limbs EXCEPT ![i] = limbs[i] % 65536,
                                 ![i - 1] = limbs[i - 1] + (limbs[i] \div 65536)], i - 1)

\* The limbs of r / d from limb i on, r being what is left of the dividend
\* in units of limb i - 1, and the remainder left after the last limb.
RECURSIVE f64_div_limbs(_, _, _)
f64_div_limbs(r, d, i) ==
    IF i > 4 THEN [limbs |-> <<>>, rem |-> r]
    ELSE LET scaled == r * (IF i = 1 THEN 256 ELSE 65536)
             rest == f64_div_limbs(scaled % d, d, i + 1)
         IN [limbs |-> <<scaled \div d>> \o rest.limbs, rem |-> rest.rem]

\* An exact result of 1 or more, with `inexact` telling of a non-zero part
\* beyond the last limb, rounded to 53 significant places.  lead is the worth
\* of the first significant place; the 53rd is worth lead / 2^52, which is
\* ulp = 16 * lead units of the last limb.  The part below it is dropped and
\* one ulp is added when that part is above ulp / 2, or is ulp / 2 and the
\* 53rd place is odd (ties to even).
f64_round(limbs, inexact) ==
    LET whole == limbs[1] \div 256 IN
    IF whole = 0 THEN limbs
    ELSE LET lead == CHOOSE p \in {1, 2, 4, 8, 16, 32, 64, 128} : p <= whole /\ whole < 2 * p
             ulp == 16 * lead
             low == limbs[4] % ulp
             kept == limbs[4] - low
             odd == (kept \div ulp) % 2 = 1
             up == \/ 2 * low > ulp
                   \/ 2 * low = ulp /\ (inexact \/ odd)
         IN f64_carry([limbs EXCEPT ![4] = IF up THEN kept + ulp ELSE kept], 4)

\* (k as f64 * bucket_size + 1.0).floor() as usize (lines 71, 72, 88) with
\* bucket_size = (n - 2) as f64 / (threshold - 2) as f64 (line 66)
lttb_range_floor(k, n, threshold) ==
    LET quotient == f64_div_limbs(n - 2, threshold - 2, 1)
        bucket_size == f64_round(quotient.limbs, quotient.rem # 0)
        product == f64_round(f64_carry([i \in 1..4 |-> k * bucket_size[i]], 4), FALSE)
        sum == f64_round([product EXCEPT ![1] = product[1] + 256], FALSE)
    IN sum[1] \div 256

\* The ranges of the bucket loop (lines 69-89) for 3 <= threshold < n, one
\* per i in 0..(threshold - 2): the bucket data[range_start..range_end) and
\* the next bucket data[avg_range_start..avg_range_end) that is averaged.
lttb_ranges(n, threshold) ==
    [k \in 1..lttb_buckets(threshold) |->
        [range_start |-> lttb_range_floor(k - 1, n, threshold),
         range_end |-> lttb_range_floor(k, n, threshold),
         avg_range_start |-> lttb_range_floor(k, n, threshold),
         avg_range_end |-> Min2(lttb_range_floor(k + 1, n, threshold), n)]]

\* a call that reaches the bucket loop: data.len() = n, 3 <= threshold < n
\* (lines 45-55); the ranges do not read the points
InitLttbRanges ==
    /\ op = "lttb_ranges"
    /\ pc = "call"
    /\ \E n \in 4..LttbRangesMaxLen, threshold \in 3..(LttbRangesMaxLen - 1) :
        /\ threshold < n
        /\ args = [n |-> n, threshold |-> threshold]
    /\ ret = NoRet
    /\ sel = NoRet

CallLttbRanges ==
    /\ op = "lttb_ranges"
    /\ pc = "call"
    /\ pc' = "done"
    /\ ret' = lttb_ranges(args.n, args.threshold)
    /\ UNCHANGED <<op, args, sel>>

SpecLttbRanges == InitLttbRanges /\ [][CallLttbRanges]_vars

\* C25: for 3 <= threshold < n the bucket of the k-th interior point is
\* [floor(k * w) + 1, floor((k + 1) * w) + 1) with
\* w = (n - 2) / (threshold - 2); the buckets are non-empty, consecutive and
\* cover exactly the interior indices 1 .. n - 2, and the next bucket of the
\* final one is the last data point alone.
LttbBucketsCoverInterior ==
    (op = "lttb_ranges" /\ pc = "done")
    => LET n == args.n
           buckets == args.threshold - 2
       IN /\ Len(ret) = buckets
          /\ \A k \in 1..buckets :
                /\ ret[k].range_start = (((k - 1) * (n - 2)) \div buckets) + 1
                /\ ret[k].range_end = ((k * (n - 2)) \div buckets) + 1
                /\ ret[k].range_start < ret[k].range_end
                /\ k < buckets => ret[k + 1].range_start = ret[k].range_end
          /\ ret[1].range_start = 1
          /\ ret[buckets].range_end = n - 1
          /\ ret[buckets].avg_range_start = n - 1
          /\ ret[buckets].avg_range_end = n

\* The ranges of a call do not leave the data, are not empty and follow one
\* another.
LttbRangesInBounds ==
    (op = "lttb_ranges" /\ pc = "done")
    => \A k \in 1..Len(ret) :
          /\ 1 <= ret[k].range_start /\ ret[k].range_start < ret[k].range_end
          /\ ret[k].range_end = ret[k].avg_range_start
          /\ ret[k].avg_range_start < ret[k].avg_range_end
          /\ ret[k].avg_range_end <= args.n
          /\ k < Len(ret) => ret[k + 1].range_start = ret[k].range_end

\* Up to six points the f64 ranges are the ranges of exact arithmetic.
LttbRangesExactWhenShort ==
    (op = "lttb_ranges" /\ pc = "done" /\ args.n <= LttbMaxLen + 1)
    => \A k \in 1..Len(ret) :
          /\ ret[k].range_start = lttb_bucket_floor(k - 1, args.n, args.threshold)
          /\ ret[k].range_end = lttb_bucket_floor(k, args.n, args.threshold)
          /\ ret[k].avg_range_end
                = Min2(lttb_bucket_floor(k + 1, args.n, args.threshold), args.n)

\* The inter-quartile range of data, in quarters: the linear-interpolation
\* percentiles at 0.75 and 0.25 of the sorted data.
HistIqr(data) ==
    percentile_sorted(sort_asc(data), 3) - percentile_sorted(sort_asc(data), 1)

\* C26: for data whose inter-quartile range is 0 while max # min,
\* histogram_bins(data, FreedmanDiaconis) returns the bins of
\* histogram_bins(data, Sturges): ceil(log2 n) + 1 bins of equal width that
\* follow one another from min to max.
HistFdFallsBackToSturges ==
    (op = "histogram_bins" /\ pc = "done" /\ args.rule.kind = "FreedmanDiaconis"
        /\ args.data # <<>> /\ HistIqr(args.data) = 0
        /\ extent(args.data).val[1] # extent(args.data).val[2])
    => LET n == Len(args.data)
           k == Len(ret)
           min_val == extent(args.data).val[1]
           max_val == extent(args.data).val[2]
       IN /\ ret = histogram_bins(args.data, [kind |-> "Sturges"], 1)
          /\ k >= 2 /\ 2 ^ (k - 1) >= n /\ 2 ^ (k - 2) < n
          /\ ret[1].x0 = min_val * k /\ ret[k].x1 = max_val * k
          /\ \A b \in 1..k : ret[b].x1 - ret[b].x0 = max_val - min_val
          /\ \A b \in 1..(k - 1) : ret[b + 1].x0 = ret[b].x1

\* C26 witness: FreedmanDiaconis on five values of which four are equal, so
\* that both quartiles are that value, returned the four bins of Sturges.
HistFdFallsBackToSturgesWitness ==
    /\ op = "histogram_bins" /\ pc = "done"
    /\ args.rule.kind = "FreedmanDiaconis"
    /\ args.data = <<1, 1, 0, 1, 1>>
    /\ HistIqr(args.data) = 0
    /\ Len(ret) = 4
    /\ ret[1].count = 1 /\ ret[4].count = 4

RatLeq(a, b) == a.n * b.d <= b.n * a.d

\* The band of index i of the scale of the call, [map_index(i),
\* map_index(i) + band_width()], lies between lo and hi, and ends before the
\* band of every later index begins.
BandInside(i, lo, hi) ==
    LET self == args.self
        start == band_map_index(self, i)
        end == RatAdd(start, band_width(self))
    IN /\ RatLeq(Rat(lo, 1), start)
       /\ RatLeq(start, end)
       /\ RatLeq(end, Rat(hi, 1))
       /\ \A j \in (i + 1)..(Len(self.categories) - 1) :
            RatLeq(end, band_map_index(self, j))

\* C28: for every BandScale with n >= 1 categories, any padding and a range
\* in either order, every band i < n, [map_index(i), map_index(i) +
\* band_width()], lies inside the pixel interval between range.0 and range.1,
\* and bands of different indices do not overlap.
BandsInsideRange ==
    (op = "BandScale" /\ pc = "map_index" /\ args.idx < Len(args.self.categories))
    => /\ RatEq(ret, band_map_index(args.self, args.idx))
       /\ BandInside(args.idx,
                     Min2(args.self.range[1], args.self.range[2]),
                     Max2(args.self.range[1], args.self.range[2]))

\* The same for the scales whose range is given in ascending order,
\* range.0 <= range.1.
BandsInsideAscendingRange ==
    (op = "BandScale" /\ pc = "map_index" /\ args.idx < Len(args.self.categories)
        /\ args.self.range[1] <= args.self.range[2])
    => /\ RatEq(ret, band_map_index(args.self, args.idx))
       /\ BandInside(args.idx, args.self.range[1], args.self.range[2])

\* A scale over the range (0, 3) with two categories and padding 0.5 gave the
\* start 1.875 of the band of index 1, which ends at 2.625.
BandsInsideAscendingRangeWitness ==
    /\ op = "BandScale" /\ pc = "map_index"
    /\ Len(args.self.categories) = 2 /\ args.idx = 1
    /\ args.self.range = <<0, 3>>
    /\ RatEq(args.self.padding, Rat(1, 2))
    /\ RatEq(ret, Rat(15, 8))
    /\ RatEq(RatAdd(ret, band_width(args.self)), Rat(21, 8))

\* C29: a selection that reports is_empty() contains no point: for every
\* Selection built through point, interval_x, interval_xy or Multi, if
\* is_empty() then contains_point(p, i) is false for every point p and index
\* i, and filter_by_selection(data, s) is empty for every data.
SelectionEmptyContainsNothing ==
    (op = "Selection" /\ is_empty(args.self))
    => /\ pc = "is_empty" => ret
       /\ pc = "contains_point" => ~ret
       /\ pc = "filter_by_selection" => ret = <<>>

\* The same for the Point and the Multi selections: without an index, or
\* without a member, they contain no point.
SelectionEmptyPointOrMulti ==
    (op = "Selection" /\ is_empty(args.self) /\ args.self.kind # "Interval")
    => /\ pc = "is_empty" => ret
       /\ pc = "contains_point" => ~ret
       /\ pc = "filter_by_selection" => ret = <<>>

\* filter_by_selection keeps, in order, the points the selection contains.
SelectionFilterKeepsContained ==
    (op = "Selection" /\ pc = "filter_by_selection")
    => LET kept == {k \in 1..Len(args.data) :
                        contains_point(args.self, args.data[k], k - 1)}
       IN /\ Len(ret) = Cardinality(kept)
          /\ \A k \in 1..Len(ret) : \E j \in kept :
                /\ ret[k] = args.data[j]
                /\ Cardinality({i \in kept : i <= j}) = k

(***************************************************************************)
(* The kernel as a whole: a behaviour is the use of one function or object. *)
(***************************************************************************)
Init ==
    \/ InitLttb
    \/ InitM4
    \/ InitNearest
    \/ InitBoxPlot
    \/ InitHistogram
    \/ InitStack
    \/ InitArcs
    \/ InitTable
    \/ InitScale
    \/ InitSelection
    \/ InitStatistics
    \/ InitWaterfall
    \/ InitLttbRanges

Next ==
    \/ CallLttb
    \/ CallM4
    \/ CallNearest
    \/ CallBoxPlot
    \/ CallHistogram
    \/ CallStack
    \/ CallArcs
    \/ NextTable
    \/ NextScale
    \/ NextSelection
    \/ NextStatistics
    \/ NextWaterfall
    \/ CallLttbRanges

Spec == Init /\ [][Next]_vars

====
